---- MODULE Spec2Model ----
(***************************************************************************)
(* Browser-session orchestration of digital-recruiter:                     *)
(*   src/src/lib/session.ts          session store (mutex, atomic write)   *)
(*   src/src/lib/browser.ts          browser manager, limiter, rate limit  *)
(*   src/src/services/linkedinScraper.ts   scrape job pipeline             *)
(* Every asynchronous task (a scrape job, an API caller, a debug endpoint) *)
(* is a process p with a program counter pc[p] and a stack of return       *)
(* labels; one action is one run of the event loop from one await to the   *)
(* next.                                                                   *)
(***************************************************************************)
EXTENDS Integers, Sequences, FiniteSets, TLC

\* ---------------------------------------------------------------- bounds
NumProcs == 3
NumCallers == 2
NumJobs == 2
MaxCalls == 3
MaxGen == 5
MaxLaunches == 3
RequestDelay == 2
MaxJar == 2
MaxAgeMs == 2000
StartClock == 5000
TickMs == 1000
MaxClock == 7000

Procs == 1..NumProcs
Callers == 1..NumCallers
Jobs == 1..NumJobs

VARIABLES
  pc,            \* pc[p]: the await the task p is suspended at
  stack,         \* stack[p]: return labels of the calls p is inside
  retval,        \* retval[p]: value returned by the last call that returned to p
  exc,           \* exc[p]: the last call that returned to p threw
  lockPromise,   \* session.ts lockPromise is non-null
  releaseLock,   \* session.ts releaseLock is non-null
  owner,         \* the task whose acquireLock created the current lockPromise, or 0
  primary,       \* content of COOKIE_FILE
  bak,           \* content of COOKIE_BAK
  tmp,           \* tmp[p]: content of the temp file of p's atomicWrite
  payload,       \* payload[p]: the record p's saveSession is writing
  copySrc,       \* copySrc[p]: what p's copyFile is copying
  loadData,      \* loadData[p]: the record p's loadSession parsed
  nextGen,       \* stands for nowIso(): the next savedAt value
  budget,        \* session-store calls the API callers may still start
  crashed,       \* the await a saveSession was at when the process last stopped
  browser,       \* browser.ts `browser`: the cached handle, 0 for null
  alive,         \* the launched browsers whose process is running
  listening,     \* the browsers that still carry their 'disconnected' listener
  nextBrowser,   \* the number the next launched browser gets
  handle,        \* handle[p]: the local `b` of p's getBrowser / newPage
  queue,         \* the limiter's queue of submitted jobs
  sinceLaunch,   \* time since the limiter launched a job, up to RequestDelay
  sinceRequest,  \* Date.now() - lastRequestTime, up to RequestDelay
  sleepLeft,     \* sleepLeft[p]: what is left of p's setTimeout
  submitSeq,     \* the jobs in the order schedule() was called for them
  startSeq,      \* the jobs in the order they began to execute
  doneSeq,       \* the jobs in the order they settled
  startGap,      \* time between the starts of the last two jobs started
  creds,         \* LINKEDIN_EMAIL and LINKEDIN_PASSWORD are set
  probe,         \* probe[p]: what p's validateSession saw when it returned true
  attempts,      \* attempts[p]: b.newPage() calls of p's running newPage()
  pageSetup,     \* pageSetup[p]: the setup of the page newPage() returned to p
  probed,        \* probed[p]: the handle whose version() failed in p's getBrowser
  authUrl,       \* authUrl[p]: page.url() of job p after the credentials were submitted
  pageJar,       \* the cookies of the page saveSession is called with
  injected,      \* the cookies the last loadSession passed to page.setCookie
  clock,         \* Date.now(), in milliseconds
  calls,         \* the last two session-store calls made on the cookie data
  views,         \* what the pages of the target profile show to the extractors
  workHistory,   \* scrapeLinkedInProfile's local workHistory
  raw,           \* the value analyzeLinkedInProfile resolved with
  profile,       \* the value of parseLinkedInProfile(raw)
  snaps,         \* the cookies of the fulfilled snapshots, in the order read
  kept,          \* the cookies saveSession put into the record, in Map order
  cachedBefore,  \* cachedBefore[p]: `browser` when p's restart request began
  snapsRejected, \* snapsRejected[p]: every page.cookies(u) of p's running save was rejected
  linkedinUrls,  \* the linkedinUrls of the body of the bulk request
  results,       \* bulkAnalyze's local results
  cursor         \* the position of bulkAnalyze's for..of in linkedinUrls

lockVars == <<lockPromise, releaseLock, owner>>
fileVars == <<primary, bak, tmp>>
locVars == <<payload, copySrc, loadData, probe>>
sessVars == <<lockVars, fileVars, locVars, nextGen, budget>>
ctlVars == <<pc, stack, retval, exc>>
vars == <<pc, stack, retval, exc, lockPromise, releaseLock, owner, primary, bak,
          tmp, payload, copySrc, loadData, nextGen, budget, crashed, browser, alive,
          listening, nextBrowser, handle, queue, sinceLaunch, sinceRequest,
          sleepLeft, submitSeq, startSeq, doneSeq, startGap, creds, probe,
          attempts, pageSetup, probed, authUrl, injected, pageJar, clock, calls,
          views, workHistory, raw, profile, snaps, kept, cachedBefore,
          snapsRejected, linkedinUrls, results, cursor>>

pageVars == <<attempts, pageSetup, probed>>
brCore == <<browser, alive, listening, nextBrowser, handle, attempts, probed>>
brVars == <<brCore, pageSetup>>
schedVars == <<queue, sinceLaunch, sinceRequest, sleepLeft, submitSeq, startSeq,
               doneSeq, startGap, creds, authUrl>>
scrapeVars == <<views, workHistory, raw, profile>>
dedupVars == <<snaps, kept>>
srvVars == <<cachedBefore, snapsRejected>>
bulkVars == <<linkedinUrls, results, cursor>>
dataVars == <<pageJar, injected, clock, calls, scrapeVars, dedupVars, srvVars,
              bulkVars>>
\* what the session store never writes
nonSess == <<crashed, dataVars, brVars, schedVars>>
\* what saveSession never writes outside the session store
nonSave == <<crashed, pageJar, injected, clock, calls, scrapeVars, dedupVars,
            cachedBefore, bulkVars, brVars, schedVars>>
\* what the browser manager never writes
nonBr == <<retval, sessVars, crashed, dataVars, schedVars>>

\* ---------------------------------------------------------------- files
Absent == [kind |-> "absent", gen |-> 0, count |-> 0]
Empty == [kind |-> "empty", gen |-> 0, count |-> 0]
Partial == [kind |-> "partial", gen |-> 0, count |-> 0]
Record(g, n) == [kind |-> "json", gen |-> g, count |-> n]

\* fs.existsSync
Exists(f) == f.kind # "absent"
\* JSON.parse succeeds and yields a StoredCookies record
Parses(f) == f.kind = "json"

\* ---------------------------------------------------------------- calls
Call(p, entry, retLabel) ==
  /\ pc' = [pc EXCEPT ![p] = entry]
  /\ stack' = [stack EXCEPT ![p] = <<retLabel>> \o @]

Goto(p, label) == pc' = [pc EXCEPT ![p] = label]

Return(p, v, e) ==
  /\ pc' = [pc EXCEPT ![p] = Head(stack[p])]
  /\ stack' = [stack EXCEPT ![p] = Tail(@)]
  /\ retval' = [retval EXCEPT ![p] = v]
  /\ exc' = [exc EXCEPT ![p] = e]

\* ------------------------------------------------- session.ts: the mutex
\* The label a task resumes at when the promise it awaits in acquireLock
\* resolves: the statement after `await acquireLock()`.
WakeLabel(l) ==
  CASE l = "save_wait" -> "save_snap"
    [] l = "load_wait" -> "load_read"
    [] l = "clear_wait" -> "clear_unlink"
    [] OTHER -> l

\* acquireLock(): take the lock when free, else await the current promise
\* (and return once it resolves, without taking the lock again).
AcquireLock(p, entry, wait, body) ==
  /\ pc[p] = entry
  /\ IF ~lockPromise
       THEN /\ lockPromise' = TRUE
            /\ releaseLock' = TRUE
            /\ owner' = p
            /\ Goto(p, body)
       ELSE /\ UNCHANGED lockVars
            /\ Goto(p, wait)

\* release() in a finally block, followed by the return to the caller.
ReleaseAndReturn(p, v, e) ==
  LET woken == IF releaseLock THEN [q \in Procs |-> WakeLabel(pc[q])] ELSE pc
  IN /\ pc' = [woken EXCEPT ![p] = Head(stack[p])]
     /\ stack' = [stack EXCEPT ![p] = Tail(@)]
     /\ retval' = [retval EXCEPT ![p] = v]
     /\ exc' = [exc EXCEPT ![p] = e]
     /\ lockPromise' = IF releaseLock THEN FALSE ELSE lockPromise
     /\ releaseLock' = FALSE
     /\ owner' = IF releaseLock THEN 0 ELSE owner

\* ------------------------------------------------ session.ts: saveSession
SaveAcquire(p) ==
  /\ AcquireLock(p, "save_acquire", "save_wait", "save_snap")
  /\ UNCHANGED <<stack, retval, exc, fileVars, locVars, nextGen, budget>>
  /\ UNCHANGED nonSess

\* Promise.allSettled over page.cookies of the snapshot URLs (rejected
\* snapshots are skipped), filterAllowed, !isExpired, dedup, userAgent: builds
\* the payload; n is the number of cookies that survive, none when every
\* snapshot was rejected.
SaveSnap(p) ==
  /\ pc[p] = "save_snap"
  /\ \E n \in 0..1, r \in BOOLEAN :
       /\ r => n = 0
       /\ payload' = [payload EXCEPT ![p] = Record(nextGen, n)]
       /\ snapsRejected' = [snapsRejected EXCEPT ![p] = r]
  /\ nextGen' = IF nextGen < MaxGen THEN nextGen + 1 ELSE nextGen
  /\ Goto(p, "aw_write")
  /\ UNCHANGED <<stack, retval, exc, lockVars, fileVars, copySrc, loadData,
                 probe, budget>>
  /\ UNCHANGED nonSave

\* The end of saveSession, normal or through its catch (which only logs):
\* the finally releases the lock and saveSession returns.  The temp file of
\* a failed write is left behind under a random name nothing reads again.
SaveEnd(p) ==
  /\ ReleaseAndReturn(p, FALSE, FALSE)
  /\ payload' = [payload EXCEPT ![p] = Absent]
  /\ copySrc' = [copySrc EXCEPT ![p] = Absent]
  /\ tmp' = [tmp EXCEPT ![p] = Absent]
  /\ snapsRejected' = [snapsRejected EXCEPT ![p] = FALSE]
  /\ UNCHANGED <<loadData, probe, nextGen, budget>>
  /\ UNCHANGED nonSave

\* A writeFile that targets the session file itself.
AwWriteBeginInPlace(p) ==
  /\ pc[p] = "aw_write"
  /\ \/ /\ primary' = Empty
        /\ Goto(p, "aw_write2")
        /\ UNCHANGED <<stack, retval, exc, lockVars, bak, tmp, locVars,
                       nextGen, budget, nonSess>>
     \/ /\ SaveEnd(p)
        /\ UNCHANGED <<primary, bak>>

\* atomicWrite: fsp.writeFile(tmp, data) opens and truncates the temp file ...
AwWriteBegin(p) ==
  /\ pc[p] = "aw_write"
  /\ \/ /\ tmp' = [tmp EXCEPT ![p] = Empty]
        /\ Goto(p, "aw_write2")
        /\ UNCHANGED <<stack, retval, exc, lockVars, primary, bak, locVars,
                       nextGen, budget, nonSess>>
     \/ /\ SaveEnd(p)
        /\ UNCHANGED <<primary, bak>>

\* ... and then writes the data, or fails half way.
AwWriteEnd(p) ==
  /\ pc[p] = "aw_write2"
  /\ \/ /\ tmp' = [tmp EXCEPT ![p] = payload[p]]
        /\ Goto(p, "aw_backup")
        /\ UNCHANGED <<stack, retval, exc, lockVars, primary, bak, locVars,
                       nextGen, budget, nonSess>>
     \/ /\ SaveEnd(p)
        /\ UNCHANGED <<primary, bak>>

\* atomicWrite: if (fs.existsSync(file)) copyFile(file, COOKIE_BAK), errors
\* ignored.  The copy truncates the destination and then fills it.
AwBackupBegin(p) ==
  /\ pc[p] = "aw_backup"
  /\ IF Exists(primary)
       THEN \/ /\ bak' = Empty
               /\ copySrc' = [copySrc EXCEPT ![p] = primary]
               /\ Goto(p, "aw_backup2")
            \/ /\ Goto(p, "aw_rename")
               /\ UNCHANGED <<bak, copySrc>>
       ELSE /\ Goto(p, "aw_rename")
            /\ UNCHANGED <<bak, copySrc>>
  /\ UNCHANGED <<stack, retval, exc, lockVars, primary, tmp, payload,
                 loadData, probe, nextGen, budget>>
  /\ UNCHANGED nonSess

AwBackupEnd(p) ==
  /\ pc[p] = "aw_backup2"
  /\ \/ bak' = copySrc[p]
     \/ bak' = Partial
  /\ copySrc' = [copySrc EXCEPT ![p] = Absent]
  /\ Goto(p, "aw_rename")
  /\ UNCHANGED <<stack, retval, exc, lockVars, primary, tmp, payload,
                 loadData, probe, nextGen, budget>>
  /\ UNCHANGED nonSess

\* atomicWrite: fsp.rename(tmp, file) (or its failure); then saveSession
\* ends.
AwRename(p) ==
  /\ pc[p] = "aw_rename"
  /\ \/ primary' = tmp[p]
     \/ UNCHANGED primary
  /\ SaveEnd(p)
  /\ UNCHANGED bak

\* -------------------------------------------- session.ts: validateSession
\* What a validateSession sees: whether page.goto(/feed/) threw, the path of
\* page.url() afterwards, and whether the landmark selector appeared within
\* the 10 s of waitForSelector.
Observation(e, u, l) == [navError |-> e, url |-> u, landmark |-> l]

NoProbe == Observation(FALSE, "none", FALSE)

Observations ==
  {Observation(FALSE, "/feed/", TRUE),
   Observation(FALSE, "/feed/", FALSE),
   Observation(TRUE, "about:blank", FALSE),
   Observation(FALSE, "/login", FALSE),
   Observation(FALSE, "/checkpoint/challenge", FALSE)}

\* /\/login|\/checkpoint|\/challenge/i.test(current)
BadUrl(u) == u \in {"/login", "/checkpoint/challenge"}

\* The goto error is only logged and the waitForSelector error ignored: the
\* value is decided by the URL alone.
validateSession(o) == ~BadUrl(o.url)

\* ------------------------------------------------ session.ts: loadSession
LoadAcquire(p) ==
  /\ AcquireLock(p, "load_acquire", "load_wait", "load_read")
  /\ UNCHANGED <<stack, retval, exc, fileVars, locVars, nextGen, budget>>
  /\ UNCHANGED nonSess

\* Has the parsed record a cookie left after filterAllowed and !isExpired?
HasCookies(f) == f.count > 0

\* A return out of loadSession's try (v) or an exception leaving it (e):
\* the finally releases the lock.
LoadEnd(p, v, e) ==
  /\ ReleaseAndReturn(p, v, e)
  /\ loadData' = [loadData EXCEPT ![p] = Absent]
  /\ probe' = [probe EXCEPT ![p] = NoProbe]
  /\ UNCHANGED <<fileVars, payload, copySrc, nextGen, budget>>
  /\ UNCHANGED nonSess

LoadGoto(p, label, data) ==
  /\ Goto(p, label)
  /\ loadData' = [loadData EXCEPT ![p] = data]
  /\ UNCHANGED <<stack, retval, exc, lockVars, fileVars, payload, copySrc,
                 probe, nextGen, budget>>
  /\ UNCHANGED nonSess

\* existsSync(COOKIE_FILE), readFile, the empty check, JSON.parse and, on a
\* parse error, existsSync(COOKIE_BAK).
LoadRead(p) ==
  /\ pc[p] = "load_read"
  /\ IF ~Exists(primary) \/ primary.kind = "empty"
       THEN LoadEnd(p, FALSE, FALSE)
       ELSE IF Parses(primary)
         THEN IF HasCookies(primary)
                THEN LoadGoto(p, "load_inject", primary)
                ELSE LoadEnd(p, FALSE, FALSE)
         ELSE IF Exists(bak)
                THEN LoadGoto(p, "load_read_bak", Absent)
                ELSE LoadEnd(p, FALSE, FALSE)

\* readFile(COOKIE_BAK) and JSON.parse of it.
LoadReadBak(p) ==
  /\ pc[p] = "load_read_bak"
  /\ IF Parses(bak) /\ HasCookies(bak)
       THEN LoadGoto(p, "load_inject", bak)
       ELSE LoadEnd(p, FALSE, FALSE)

\* page.setCookie(...slice): an error propagates through the finally.
LoadInject(p) ==
  /\ pc[p] = "load_inject"
  /\ \/ LoadGoto(p, "load_validate", loadData[p])
     \/ LoadEnd(p, FALSE, TRUE)

\* const ok = await validateSession(page): true leads to refreshAndSave,
\* false to `return ok`.
LoadValidate(p) ==
  /\ pc[p] = "load_validate"
  /\ \E o \in Observations :
       IF validateSession(o)
         THEN /\ Goto(p, "load_refresh")
              /\ loadData' = [loadData EXCEPT ![p] = Absent]
              /\ probe' = [probe EXCEPT ![p] = o]
              /\ UNCHANGED <<stack, retval, exc, lockVars, fileVars, payload,
                             copySrc, nextGen, budget>>
              /\ UNCHANGED nonSess
         ELSE LoadEnd(p, FALSE, FALSE)

\* refreshAndSave(page): the three gotos, then saveSession(page), all while
\* loadSession still holds the lock.
LoadRefresh(p) ==
  /\ pc[p] = "load_refresh"
  /\ Call(p, "save_acquire", "load_saved")
  /\ UNCHANGED <<retval, exc, sessVars>>
  /\ UNCHANGED nonSess

LoadSaved(p) ==
  /\ pc[p] = "load_saved"
  /\ LoadEnd(p, TRUE, FALSE)

\* ------------------------------------------ session.ts: ensureFreshSession
\* readFile and JSON.parse without the lock, then the age test: a record
\* that parses may be fresh; a missing or unreadable one has age Date.now().
EfRead(p) ==
  /\ pc[p] = "ef_read"
  /\ \/ /\ Parses(primary)
        /\ Return(p, TRUE, FALSE)
     \/ /\ Goto(p, "ef_validate")
        /\ UNCHANGED <<stack, retval, exc>>
  /\ UNCHANGED sessVars
  /\ UNCHANGED nonSess

\* validateSession, then refreshAndSave -> saveSession.
EfValidate(p) ==
  /\ pc[p] = "ef_validate"
  /\ \E o \in Observations :
       IF validateSession(o)
         THEN /\ Call(p, "save_acquire", "ef_saved")
              /\ UNCHANGED <<retval, exc>>
         ELSE Return(p, FALSE, FALSE)
  /\ UNCHANGED sessVars
  /\ UNCHANGED nonSess

EfSaved(p) ==
  /\ pc[p] = "ef_saved"
  /\ Return(p, TRUE, FALSE)
  /\ UNCHANGED sessVars
  /\ UNCHANGED nonSess

\* -------------------------------------------- session.ts: clearSessionFile
ClearAcquire(p) ==
  /\ AcquireLock(p, "clear_acquire", "clear_wait", "clear_unlink")
  /\ UNCHANGED <<stack, retval, exc, fileVars, locVars, nextGen, budget>>
  /\ UNCHANGED nonSess

ClearUnlink(p) ==
  /\ pc[p] = "clear_unlink"
  /\ primary' = Absent
  /\ ReleaseAndReturn(p, FALSE, FALSE)
  /\ UNCHANGED <<bak, tmp, locVars, nextGen, budget>>
  /\ UNCHANGED nonSess

\* ------------------------------------- the session store under its callers
SessionOps == {"save_acquire", "load_acquire", "ef_read", "clear_acquire"}

\* A caller (a job, a background freshness check) invokes an operation.
SessCall(p) ==
  /\ pc[p] = "idle"
  /\ budget > 0
  /\ budget' = budget - 1
  /\ \E op \in SessionOps : Call(p, op, "idle")
  /\ UNCHANGED <<retval, exc, lockVars, fileVars, locVars, nextGen>>
  /\ UNCHANGED nonSess

SessionStep(p) ==
  \/ SaveAcquire(p) \/ SaveSnap(p) \/ AwWriteBegin(p) \/ AwWriteEnd(p)
  \/ AwBackupBegin(p) \/ AwBackupEnd(p) \/ AwRename(p)
  \/ LoadAcquire(p) \/ LoadRead(p) \/ LoadReadBak(p) \/ LoadInject(p)
  \/ LoadValidate(p) \/ LoadRefresh(p) \/ LoadSaved(p)
  \/ EfRead(p) \/ EfValidate(p) \/ EfSaved(p)
  \/ ClearAcquire(p) \/ ClearUnlink(p)

\* Nothing was scraped and no cookie list deduplicated.
NoValue == [kind |-> "none"]

\* No bulk request is being served.
NoBulk ==
  /\ linkedinUrls = <<>>
  /\ results = <<>>
  /\ cursor = 0

InitPure ==
  /\ NoBulk
  /\ views = NoValue
  /\ workHistory = <<>>
  /\ raw = NoValue
  /\ profile = NoValue
  /\ snaps = <<>>
  /\ kept = <<>>
  /\ cachedBefore = [p \in Procs |-> 0]
  /\ snapsRejected = [p \in Procs |-> FALSE]

\* No data-level session call has run: an empty page at time 0.
InitData ==
  /\ pageJar = {}
  /\ injected = {}
  /\ clock = 0
  /\ calls = <<>>
  /\ InitPure

InitCtl ==
  /\ pc = [p \in Procs |-> "idle"]
  /\ stack = [p \in Procs |-> <<>>]
  /\ retval = [p \in Procs |-> FALSE]
  /\ exc = [p \in Procs |-> FALSE]

InitTasks ==
  /\ lockPromise = FALSE
  /\ releaseLock = FALSE
  /\ owner = 0
  /\ tmp = [p \in Procs |-> Absent]
  /\ payload = [p \in Procs |-> Absent]
  /\ copySrc = [p \in Procs |-> Absent]
  /\ loadData = [p \in Procs |-> Absent]
  /\ probe = [p \in Procs |-> NoProbe]
  /\ crashed = "none"

InitLocalsAt ==
  /\ InitTasks
  /\ InitData

InitLocals ==
  /\ nextGen = 2
  /\ InitLocalsAt

InitBrowser ==
  /\ browser = 0
  /\ alive = {}
  /\ listening = {}
  /\ nextBrowser = 1
  /\ handle = [p \in Procs |-> 0]
  /\ attempts = [p \in Procs |-> 0]
  /\ pageSetup = [p \in Procs |-> {}]
  /\ probed = [p \in Procs |-> 0]

InitSched ==
  /\ queue = <<>>
  /\ sinceLaunch = RequestDelay
  /\ sinceRequest = RequestDelay
  /\ sleepLeft = [p \in Procs |-> 0]
  /\ submitSeq = <<>>
  /\ startSeq = <<>>
  /\ doneSeq = <<>>
  /\ startGap = RequestDelay
  /\ authUrl = [p \in Procs |-> "none"]

InitSession ==
  /\ InitCtl
  /\ InitLocals
  /\ InitBrowser
  /\ InitSched
  /\ creds = TRUE
  /\ primary \in {Absent, Empty, Partial, Record(1, 1)}
  /\ bak \in {Absent, Partial, Record(0, 1)}
  /\ budget = MaxCalls

NextSession ==
  \/ \E p \in Callers : SessCall(p)
  \/ \E p \in Callers : SessionStep(p)

SpecSession == InitSession /\ [][NextSession]_vars

FairSession == SpecSession /\ \A p \in Callers : WF_vars(SessionStep(p))

\* ------------------------------------------------- browser.ts: getBrowser
BrGoto(p, label, h) ==
  /\ Goto(p, label)
  /\ handle' = [handle EXCEPT ![p] = h]
  /\ UNCHANGED <<stack, exc>>

BrReturn(p, h, e) ==
  /\ pc' = [pc EXCEPT ![p] = Head(stack[p])]
  /\ stack' = [stack EXCEPT ![p] = Tail(@)]
  /\ handle' = [handle EXCEPT ![p] = h]
  /\ exc' = [exc EXCEPT ![p] = e]

\* if (browser) { await browser.version() ... } else launch
GbEntry(p) ==
  /\ pc[p] = "gb_entry"
  /\ IF browser # 0
       THEN BrGoto(p, "gb_version", browser)
       ELSE BrGoto(p, "gb_launch", 0)
  /\ UNCHANGED <<browser, alive, listening, nextBrowser, pageVars, nonBr>>

\* browser.version() answered: `return browser` (the variable as it is now);
\* or it threw: removeAllListeners and close of the variable as it is now.
GbVersion(p) ==
  /\ pc[p] = "gb_version"
  /\ IF handle[p] \in alive
       THEN /\ BrReturn(p, browser, FALSE)
            /\ UNCHANGED <<listening, probed>>
       ELSE /\ BrGoto(p, "gb_close", browser)
            /\ listening' = listening \ {browser}
            /\ probed' = [probed EXCEPT ![p] = handle[p]]
  /\ UNCHANGED <<browser, alive, nextBrowser, attempts, pageSetup, nonBr>>

\* The unhealthy browser is closed but stays cached and is handed out.
GbCloseKeep(p) ==
  /\ pc[p] = "gb_close"
  /\ alive' = alive \ {handle[p]}
  /\ UNCHANGED browser
  /\ BrGoto(p, "gb_assign", handle[p])
  /\ UNCHANGED <<listening, nextBrowser, pageVars, nonBr>>

\* the close() of the unhealthy path has settled (its error is ignored):
\* browser = null, then launchBrowser() is started.
GbClose(p) ==
  /\ pc[p] = "gb_close"
  /\ alive' = alive \ {handle[p]}
  /\ browser' = 0
  /\ BrGoto(p, "gb_launch", 0)
  /\ UNCHANGED <<listening, nextBrowser, pageVars, nonBr>>

\* innerLaunch: puppeteerExtra.launch(opts) starts a process (or throws),
\* b.on('disconnected', ...) is attached, b.version() is awaited.
GbLaunch(p) ==
  /\ pc[p] = "gb_launch"
  /\ \/ /\ nextBrowser <= MaxLaunches
        /\ alive' = alive \cup {nextBrowser}
        /\ listening' = listening \cup {nextBrowser}
        /\ nextBrowser' = nextBrowser + 1
        /\ BrGoto(p, "gb_assign", nextBrowser)
        /\ UNCHANGED probed
     \/ /\ BrReturn(p, 0, TRUE)
        /\ probed' = [probed EXCEPT ![p] = 0]
        /\ UNCHANGED <<alive, listening, nextBrowser>>
  /\ UNCHANGED <<browser, attempts, pageSetup, nonBr>>

\* browser = await launchBrowser(); return browser
GbAssign(p) ==
  /\ pc[p] = "gb_assign"
  /\ browser' = handle[p]
  /\ BrReturn(p, handle[p], FALSE)
  /\ probed' = [probed EXCEPT ![p] = 0]
  /\ UNCHANGED <<alive, listening, nextBrowser, attempts, pageSetup, nonBr>>

\* ---------------------------------------------------- browser.ts: newPage
\* page.authenticate with the proxy credentials, when they are configured
ProxyAuth == {"proxy"}

\* setUserAgent, setViewport, setExtraHTTPHeaders, evaluateOnNewDocument
Fingerprint == {"userAgent", "viewport", "headers", "evasions"}

NpEntry(p) ==
  /\ pc[p] = "np_entry"
  /\ Call(p, "gb_entry", "np_got")
  /\ attempts' = [attempts EXCEPT ![p] = 0]
  /\ pageSetup' = [pageSetup EXCEPT ![p] = {}]
  /\ UNCHANGED <<exc, browser, alive, listening, nextBrowser, handle, probed,
                 nonBr>>

\* The catch of newPage up to its first await: removeAllListeners and
\* close() of whatever `browser` is now.
NpCatch(p) ==
  /\ BrGoto(p, "np_close", browser)
  /\ listening' = listening \ {browser}
  /\ UNCHANGED <<browser, alive, nextBrowser, pageVars, nonBr>>

\* getBrowser() returned: b.newPage() is started, or its error is caught.
NpGot(p) ==
  /\ pc[p] = "np_got"
  /\ IF exc[p]
       THEN NpCatch(p)
       ELSE /\ Goto(p, "np_page")
            /\ attempts' = [attempts EXCEPT ![p] = @ + 1]
            /\ UNCHANGED <<stack, exc, browser, alive, listening, nextBrowser,
                           handle, pageSetup, probed, nonBr>>

\* b.newPage() and the page setup (proxy credentials, timeouts, user agent,
\* viewport, headers, evasions): the page is returned, or an error is caught.
NpPage(p) ==
  /\ pc[p] = "np_page"
  /\ \/ /\ handle[p] \in alive
        /\ BrReturn(p, handle[p], FALSE)
        /\ attempts' = [attempts EXCEPT ![p] = 0]
        /\ pageSetup' = [pageSetup EXCEPT ![p] = ProxyAuth \cup Fingerprint]
        /\ UNCHANGED <<browser, alive, listening, nextBrowser, probed, nonBr>>
     \/ NpCatch(p)

\* the close() of the catch has settled: browser = null; getBrowser() again.
NpClose(p) ==
  /\ pc[p] = "np_close"
  /\ alive' = alive \ {handle[p]}
  /\ browser' = 0
  /\ Call(p, "gb_entry", "np_got2")
  /\ UNCHANGED <<exc, listening, nextBrowser, handle, pageVars, nonBr>>

NpGot2(p) ==
  /\ pc[p] = "np_got2"
  /\ IF exc[p]
       THEN /\ BrReturn(p, 0, TRUE)
            /\ attempts' = [attempts EXCEPT ![p] = 0]
       ELSE /\ BrGoto(p, "np_page2", handle[p])
            /\ attempts' = [attempts EXCEPT ![p] = @ + 1]
  /\ UNCHANGED <<browser, alive, listening, nextBrowser, pageSetup, probed,
                 nonBr>>

\* A failure of the second b.newPage() is caught like the first.
NpPage2Again(p) ==
  /\ pc[p] = "np_page2"
  /\ \/ /\ handle[p] \in alive
        /\ BrReturn(p, handle[p], FALSE)
        /\ pageSetup' = [pageSetup EXCEPT ![p] = ProxyAuth]
        /\ attempts' = [attempts EXCEPT ![p] = 0]
        /\ UNCHANGED <<browser, alive, listening, nextBrowser, probed, nonBr>>
     \/ NpCatch(p)

\* the second b.newPage(): its page or its error goes to the caller.
NpPage2(p) ==
  /\ pc[p] = "np_page2"
  /\ \/ /\ handle[p] \in alive
        /\ BrReturn(p, handle[p], FALSE)
        /\ pageSetup' = [pageSetup EXCEPT ![p] = ProxyAuth]
     \/ /\ BrReturn(p, 0, TRUE)
        /\ UNCHANGED pageSetup
  /\ attempts' = [attempts EXCEPT ![p] = 0]
  /\ UNCHANGED <<browser, alive, listening, nextBrowser, probed, nonBr>>

\* ------------------------------------------------ browser.ts: closeBrowser
CbEntry(p) ==
  /\ pc[p] = "cb_entry"
  /\ IF browser # 0
       THEN BrGoto(p, "cb_close", browser)
       ELSE BrReturn(p, 0, FALSE)
  /\ UNCHANGED <<browser, alive, listening, nextBrowser, pageVars, nonBr>>

\* browser.close() resolved: browser = null; or it threw: only logged.
CbClose(p) ==
  /\ pc[p] = "cb_close"
  /\ \/ /\ alive' = alive \ {handle[p]}
        /\ listening' = listening \ {handle[p]}
        /\ browser' = 0
     \/ /\ handle[p] \notin alive
        /\ UNCHANGED <<alive, listening, browser>>
  /\ BrReturn(p, 0, FALSE)
  /\ UNCHANGED <<nextBrowser, pageVars, nonBr>>

\* The process of browser b dies; its 'disconnected' listener, if still
\* attached, removes the listeners of the cached browser and clears the
\* cache.
Disconnect(b) ==
  /\ b \in alive
  /\ alive' = alive \ {b}
  /\ IF b \in listening
       THEN /\ listening' = listening \ {b, browser}
            /\ browser' = 0
       ELSE UNCHANGED <<listening, browser>>
  /\ UNCHANGED <<pc, stack, exc, nextBrowser, handle, pageVars, nonBr>>

\* ------------------------------------ the browser manager under its callers
BrowserOps == {"gb_entry", "np_entry", "cb_entry"}

\* index.ts startupBrowserPreflight, the /debug endpoints of server.ts and
\* authenticateLinkedIn call getBrowser, newPage and closeBrowser.
BrCall(p) ==
  /\ pc[p] = "idle"
  /\ \E op \in BrowserOps : Call(p, op, "idle")
  /\ pageSetup' = [pageSetup EXCEPT ![p] = {}]
  /\ UNCHANGED <<exc, brCore, nonBr>>

GetBrowserStep(p) ==
  GbEntry(p) \/ GbVersion(p) \/ GbClose(p) \/ GbLaunch(p) \/ GbAssign(p)

NewPageStep(p) ==
  NpEntry(p) \/ NpGot(p) \/ NpPage(p) \/ NpClose(p) \/ NpGot2(p) \/ NpPage2(p)

CloseBrowserStep(p) == CbEntry(p) \/ CbClose(p)

InitBrowserSpec ==
  /\ InitCtl
  /\ InitLocals
  /\ InitBrowser
  /\ InitSched
  /\ creds = TRUE
  /\ primary = Absent
  /\ bak = Absent
  /\ budget = 0

NextBrowser ==
  \/ \E p \in Callers : BrCall(p)
  \/ \E p \in Callers : GetBrowserStep(p)
  \/ \E p \in Callers : NewPageStep(p)
  \/ \E p \in Callers : CloseBrowserStep(p)
  \/ \E b \in 1..MaxLaunches : Disconnect(b)

SpecBrowser == InitBrowserSpec /\ [][NextBrowser]_vars

\* --------------------------------------- browser.ts: limiter (Bottleneck)
\* The states of a job outside the limiter's slot.
\* A rejected job keeps its slot.
NotRunningUnlessRejected == {"idle", "queued", "resolved"}

NotRunning == {"idle", "queued", "resolved", "rejected"}

Executing(p) == pc[p] \notin NotRunning

SlotAlwaysFree == TRUE

\* maxConcurrent: 1
SlotFree == \A q \in Procs : ~Executing(q)

MinTimeIgnored == TRUE

\* minTime: env.REQUEST_DELAY_MS
MinTimeElapsed == sinceLaunch >= RequestDelay

NextJobNewest == queue[Len(queue)]

\* jobs of equal priority leave the queue in arrival order
NextJob == Head(queue)

nonJob == <<sessVars, crashed, dataVars, brVars>>

\* analyzeLinkedInProfile(url): limiter.schedule(job)
Submit(p) ==
  /\ pc[p] = "idle"
  /\ Goto(p, "queued")
  /\ queue' = Append(queue, p)
  /\ submitSeq' = Append(submitSeq, p)
  /\ UNCHANGED <<stack, retval, exc, sinceLaunch, sinceRequest, sleepLeft,
                 startSeq, doneSeq, startGap, creds, authUrl, nonJob>>

\* The limiter starts the next queued job: the job function runs up to the
\* first statement of scrapeLinkedInProfile.
Launch(p) ==
  /\ queue # <<>>
  /\ p = NextJob
  /\ SlotFree
  /\ MinTimeElapsed
  /\ queue' = SelectSeq(queue, LAMBDA q : q # p)
  /\ startGap' = sinceLaunch
  /\ sinceLaunch' = 0
  /\ startSeq' = Append(startSeq, p)
  /\ Goto(p, "rate_check")
  /\ UNCHANGED <<stack, retval, exc, sinceRequest, sleepLeft, submitSeq,
                 doneSeq, creds, authUrl, nonJob>>

\* Time passes.
Tick ==
  /\ sinceLaunch' = IF sinceLaunch < RequestDelay THEN sinceLaunch + 1 ELSE sinceLaunch
  /\ sinceRequest' = IF sinceRequest < RequestDelay THEN sinceRequest + 1 ELSE sinceRequest
  /\ sleepLeft' = [p \in Procs |-> IF sleepLeft[p] > 0 THEN sleepLeft[p] - 1 ELSE 0]
  /\ UNCHANGED <<pc, stack, retval, exc, queue, submitSeq, startSeq, doneSeq,
                 startGap, creds, authUrl, nonJob>>

\* ---------------------------------------- browser.ts: enforceRateLimit
JobGoto(p, label) ==
  /\ Goto(p, label)
  /\ UNCHANGED <<stack, retval, exc, queue, sinceLaunch, submitSeq, startSeq,
                 doneSeq, startGap, creds, authUrl, nonJob>>

JobCall(p, entry, retLabel) ==
  /\ Call(p, entry, retLabel)
  /\ UNCHANGED <<retval, exc, schedVars, nonJob>>

\* elapsed = now - lastRequestTime; wait when elapsed < delay, else
\* lastRequestTime = Date.now().
RateCheck(p) ==
  /\ pc[p] = "rate_check"
  /\ IF sinceRequest < RequestDelay
       THEN /\ sleepLeft' = [sleepLeft EXCEPT ![p] = RequestDelay - sinceRequest]
            /\ JobGoto(p, "rate_sleep")
            /\ UNCHANGED sinceRequest
       ELSE /\ sinceRequest' = 0
            /\ JobGoto(p, "auth_newpage")
            /\ UNCHANGED sleepLeft

\* the setTimeout fired: lastRequestTime = Date.now()
RateWake(p) ==
  /\ pc[p] = "rate_sleep"
  /\ sleepLeft[p] = 0
  /\ sinceRequest' = 0
  /\ JobGoto(p, "auth_newpage")
  /\ UNCHANGED sleepLeft

\* ------------------- linkedinScraper.ts: authenticateLinkedIn and the scrape
\* The job's promise settles and the limiter's slot is free again.
Settle(p, outcome) ==
  /\ Goto(p, outcome)
  /\ doneSeq' = Append(doneSeq, p)
  /\ authUrl' = [authUrl EXCEPT ![p] = "none"]
  /\ UNCHANGED <<stack, retval, exc, queue, sinceLaunch, sinceRequest,
                 sleepLeft, submitSeq, startSeq, startGap, creds, sessVars,
                 crashed, dataVars, brCore>>

\* An exception leaves authenticateLinkedIn, which has no handler around its
\* page, then scrapeLinkedInProfile, whose `page` is still null in the
\* finally, and the job function: schedule()'s promise rejects.
JobThrows(p) ==
  /\ Settle(p, "rejected")
  /\ UNCHANGED pageSetup

\* const page = await newPage()
AuthNewPage(p) ==
  /\ pc[p] = "auth_newpage"
  /\ JobCall(p, "np_entry", "auth_page")

\* The login form is visited without a look at the saved session.
AuthPageNoLoad(p) ==
  /\ pc[p] = "auth_page"
  /\ sleepLeft' = sleepLeft /\ sinceRequest' = sinceRequest
  /\ IF exc[p]
       THEN JobThrows(p)
       ELSE JobGoto(p, "auth_login")

\* newPage() threw, or loadSession(page) is called.
AuthPage(p) ==
  /\ pc[p] = "auth_page"
  /\ IF exc[p]
       THEN JobThrows(p)
       ELSE JobCall(p, "load_acquire", "auth_loaded")

\* loadSession returned.  true: warm /feed/ and test the URL; a good URL
\* leads to ensureFreshSession and `return page`.  Otherwise (false, a bad
\* URL, or an exception caught) the credentials are needed: without them
\* the job throws, with them the login form is looked for.
AuthLoaded(p) ==
  /\ pc[p] = "auth_loaded"
  /\ \/ /\ retval[p] /\ ~exc[p]
        /\ JobCall(p, "ef_read", "auth_fresh")
     \/ /\ sleepLeft' = sleepLeft /\ sinceRequest' = sinceRequest
        /\ IF creds THEN JobGoto(p, "auth_login") ELSE JobThrows(p)

\* Where the credential submission can land.
PostLoginUrls == {"/feed/", "/checkpoint/challenge", "/login"}

\* The login pages are visited and the inputs looked for: not found throws;
\* found: type, submit, wait for the navigation, read page.url() for the
\* log, then saveSession(page) whatever the URL is.
AuthLogin(p) ==
  /\ pc[p] = "auth_login"
  /\ \/ JobThrows(p)
     \/ /\ \E u \in PostLoginUrls : authUrl' = [authUrl EXCEPT ![p] = u]
        /\ Call(p, "save_acquire", "auth_saved")
        /\ UNCHANGED <<retval, exc, queue, sinceLaunch, sinceRequest, sleepLeft,
                       submitSeq, startSeq, doneSeq, startGap, creds, nonJob>>

\* await ensureFreshSession(page).catch(() => {})
AuthSaved(p) ==
  /\ pc[p] = "auth_saved"
  /\ JobCall(p, "ef_read", "auth_fresh")

\* The main profile is read for the identity fields first.
AuthFreshToMain(p) ==
  /\ pc[p] = "auth_fresh"
  /\ sleepLeft' = sleepLeft /\ sinceRequest' = sinceRequest
  /\ JobGoto(p, "scrape_main")

\* return page; the details page is warmed and extractExperience runs
AuthFresh(p) ==
  /\ pc[p] = "auth_fresh"
  /\ sleepLeft' = sleepLeft /\ sinceRequest' = sinceRequest
  /\ JobGoto(p, "scrape_details")

\* extractExperience(page).catch(() => []): no entry leads to the fallback
\* on the main profile, else the main profile is warmed for the basics.
ScrapeDetails(p) ==
  /\ pc[p] = "scrape_details"
  /\ sleepLeft' = sleepLeft /\ sinceRequest' = sinceRequest
  /\ \/ JobGoto(p, "scrape_fallback")
     \/ JobGoto(p, "scrape_main")

ScrapeFallback(p) ==
  /\ pc[p] = "scrape_fallback"
  /\ sleepLeft' = sleepLeft /\ sinceRequest' = sinceRequest
  /\ JobGoto(p, "scrape_main")

\* extractBasics answers whether or not the page's browser still runs.
ScrapeMainBlind(p) ==
  /\ pc[p] = "scrape_main"
  /\ sleepLeft' = sleepLeft /\ sinceRequest' = sinceRequest
  /\ \/ /\ retval' = [retval EXCEPT ![p] = TRUE]
        /\ Goto(p, "job_close")
     \/ /\ retval' = [retval EXCEPT ![p] = FALSE]
        /\ Goto(p, "job_close")
  /\ UNCHANGED <<stack, exc, queue, sinceLaunch, submitSeq, startSeq,
                 doneSeq, startGap, creds, authUrl, nonJob>>

\* extractBasics(page): its value is the result, its exception the job's.
\* Its page.evaluate answers only while the browser of the page (the `b` of
\* the job's newPage) runs.
ScrapeMain(p) ==
  /\ pc[p] = "scrape_main"
  /\ sleepLeft' = sleepLeft /\ sinceRequest' = sinceRequest
  /\ \/ /\ handle[p] \in alive
        /\ retval' = [retval EXCEPT ![p] = TRUE]
        /\ Goto(p, "job_close")
     \/ /\ retval' = [retval EXCEPT ![p] = FALSE]
        /\ Goto(p, "job_close")
  /\ UNCHANGED <<stack, exc, queue, sinceLaunch, submitSeq, startSeq,
                 doneSeq, startGap, creds, authUrl, nonJob>>

\* finally { await page?.close() }, then the return or the rethrow
JobClose(p) ==
  /\ pc[p] = "job_close"
  /\ pageSetup' = [pageSetup EXCEPT ![p] = {}]
  /\ IF retval[p] THEN Settle(p, "resolved") ELSE Settle(p, "rejected")

JobStep(p) ==
  \/ RateCheck(p) \/ RateWake(p) \/ AuthNewPage(p) \/ AuthPage(p)
  \/ AuthLoaded(p) \/ AuthLogin(p) \/ AuthSaved(p) \/ AuthFresh(p)
  \/ ScrapeDetails(p) \/ ScrapeFallback(p) \/ ScrapeMain(p) \/ JobClose(p)

\* The session-store steps a job can take.  Jobs run one at a time, so no
\* task is ever woken from acquireLock: a loadSession that calls
\* saveSession stays at "save_wait" and never reaches "load_saved".
JobSessionStep(p) ==
  \/ SaveAcquire(p) \/ SaveSnap(p) \/ AwWriteBegin(p) \/ AwWriteEnd(p)
  \/ AwBackupBegin(p) \/ AwBackupEnd(p) \/ AwRename(p)
  \/ LoadAcquire(p) \/ LoadRead(p) \/ LoadReadBak(p) \/ LoadInject(p)
  \/ LoadValidate(p) \/ LoadRefresh(p)
  \/ EfRead(p) \/ EfValidate(p) \/ EfSaved(p)

InitJobs ==
  /\ InitCtl
  /\ InitLocalsAt
  /\ nextGen = MaxGen
  /\ InitBrowser
  /\ InitSched
  /\ creds \in BOOLEAN
  /\ primary \in {Absent, Partial, Record(MaxGen, 1)}
  /\ bak \in {Absent, Record(MaxGen, 1)}
  /\ budget = 0

NextJobs ==
  \/ \E p \in Jobs : Submit(p)
  \/ \E p \in Jobs : Launch(p)
  \/ Tick
  \/ \E p \in Jobs : JobStep(p)
  \/ \E p \in Jobs : JobSessionStep(p)
  \/ \E p \in Jobs : GetBrowserStep(p)
  \/ \E p \in Jobs : NewPageStep(p)
  \/ \E b \in 1..MaxLaunches : Disconnect(b)

SpecJobs == InitJobs /\ [][NextJobs]_vars

\* Every started step comes back (each browser and file operation returns or
\* times out), the limiter launches what it may launch, and time passes.
FairJobs ==
  /\ SpecJobs
  /\ WF_vars(Tick)
  /\ \A p \in Jobs :
       /\ WF_vars(Launch(p))
       /\ WF_vars(JobStep(p))
       /\ WF_vars(JobSessionStep(p))
       /\ WF_vars(GetBrowserStep(p))
       /\ WF_vars(NewPageStep(p))

\* ------------------------------ the limiter under jobs that fail or succeed
\* Two requests on a server that has served others: the cached browser no
\* longer answers, the session file is cut short beside its backup, and the
\* credentials are configured or not.
InitLimiter ==
  /\ InitCtl
  /\ InitLocalsAt
  /\ nextGen = MaxGen
  /\ browser = 1
  /\ alive = {}
  /\ listening = {1}
  /\ nextBrowser = 2
  /\ handle = [p \in Procs |-> 0]
  /\ attempts = [p \in Procs |-> 0]
  /\ pageSetup = [p \in Procs |-> {}]
  /\ probed = [p \in Procs |-> 0]
  /\ InitSched
  /\ creds \in BOOLEAN
  /\ primary = Partial
  /\ bak = Record(MaxGen, 1)
  /\ budget = 0

NextLimiter ==
  \/ \E p \in Jobs : Submit(p)
  \/ \E p \in Jobs : Launch(p)
  \/ Tick
  \/ \E p \in Jobs : JobStep(p)
  \/ \E p \in Jobs : JobSessionStep(p)
  \/ \E p \in Jobs : GetBrowserStep(p)
  \/ \E p \in Jobs : NewPageStep(p)

SpecLimiter == InitLimiter /\ [][NextLimiter]_vars

\* Every started step comes back, the limiter launches what it may launch,
\* and time passes.
FairLimiter ==
  /\ SpecLimiter
  /\ WF_vars(Tick)
  /\ \A p \in Jobs :
       /\ WF_vars(Launch(p))
       /\ WF_vars(JobStep(p))
       /\ WF_vars(JobSessionStep(p))
       /\ WF_vars(GetBrowserStep(p))
       /\ WF_vars(NewPageStep(p))

\* ------------------- scrapeLinkedInProfile called outside the limiter
\* scrapeLinkedInProfile(url) called directly: its first statement is
\* `await enforceRateLimit()`.
DirectScrape(p) ==
  /\ pc[p] = "idle"
  /\ JobGoto(p, "rate_check")
  /\ UNCHANGED <<sinceRequest, sleepLeft>>

InitRate ==
  /\ InitCtl
  /\ InitLocalsAt
  /\ nextGen = MaxGen
  /\ InitBrowser
  /\ InitSched
  /\ creds \in BOOLEAN
  /\ primary \in {Absent, Partial, Record(MaxGen, 1)}
  /\ bak \in {Absent, Record(MaxGen, 1)}
  /\ budget = 0

\* Concurrent direct calls up to the statement after enforceRateLimit.
NextRate ==
  \/ \E p \in Procs : DirectScrape(p)
  \/ \E p \in Procs : RateCheck(p)
  \/ \E p \in Procs : RateWake(p)
  \/ Tick

SpecRate == InitRate /\ [][NextRate]_vars

\* ------------------------------------- server.ts: the /debug endpoints
\* The tasks that serve the debug endpoints (and the startup preflight of
\* index.ts): they call the browser manager outside the limiter.
Endpoints == Procs \ Jobs

\* what a debug handler leaves alone besides the browser manager's state
nonDbg == <<sessVars, crashed, pageJar, injected, clock, calls, scrapeVars,
            dedupVars, bulkVars, schedVars>>

DbgCall(p, entry, retLabel) ==
  /\ Call(p, entry, retLabel)
  /\ pageSetup' = [pageSetup EXCEPT ![p] = {}]
  /\ UNCHANGED <<retval, exc, brCore, nonDbg>>

\* the response is sent
DbgEnd(p) ==
  /\ Goto(p, "idle")
  /\ pageSetup' = [pageSetup EXCEPT ![p] = {}]
  /\ cachedBefore' = [cachedBefore EXCEPT ![p] = 0]
  /\ UNCHANGED snapsRejected
  /\ UNCHANGED <<stack, retval, exc, brCore, nonDbg>>

\* GET /debug/test-linkedin: page = await newPage()
DbgTest(p) ==
  /\ pc[p] = "idle"
  /\ DbgCall(p, "np_entry", "dbg_page")
  /\ UNCHANGED srvVars

\* newPage threw (status 500), or page.goto of a linkedin.com page starts
DbgPage(p) ==
  /\ pc[p] = "dbg_page"
  /\ IF exc[p]
       THEN DbgEnd(p)
       ELSE /\ Goto(p, "dbg_nav")
            /\ UNCHANGED <<stack, retval, exc, brVars, nonDbg, srvVars>>

\* the navigation ended one way or the other; page.close()
DbgNav(p) ==
  /\ pc[p] = "dbg_nav"
  /\ DbgEnd(p)

\* POST /debug/restart-browser: await closeBrowser()
DbgRestart(p) ==
  /\ pc[p] = "idle"
  /\ DbgCall(p, "cb_entry", "dbg_closed")
  /\ cachedBefore' = [cachedBefore EXCEPT ![p] = browser]
  /\ UNCHANGED snapsRejected

\* const browser = await getBrowser()
DbgClosed(p) ==
  /\ pc[p] = "dbg_closed"
  /\ DbgCall(p, "gb_entry", "dbg_restarted")
  /\ UNCHANGED srvVars

\* getBrowser threw, or browser.version() of the handle it returned throws
\* (restarted: false), or it answers (restarted: true)
DbgRestarted(p) ==
  /\ pc[p] = "dbg_restarted"
  /\ DbgEnd(p)

\* GET /debug/preflight and startupBrowserPreflight: await getBrowser()
DbgPreflight(p) ==
  /\ pc[p] = "idle"
  /\ DbgCall(p, "gb_entry", "dbg_got")
  /\ UNCHANGED srvVars

\* getBrowser threw, or newPage() is called
DbgGot(p) ==
  /\ pc[p] = "dbg_got"
  /\ IF exc[p]
       THEN DbgEnd(p)
       ELSE DbgCall(p, "np_entry", "dbg_done") /\ UNCHANGED srvVars

\* browser.version() or page.goto('about:blank'), and the response
DbgDone(p) ==
  /\ pc[p] = "dbg_done"
  /\ DbgEnd(p)

EndpointStep(p) ==
  \/ DbgTest(p) \/ DbgPage(p) \/ DbgNav(p)
  \/ DbgRestart(p) \/ DbgClosed(p) \/ DbgRestarted(p)
  \/ DbgPreflight(p) \/ DbgGot(p) \/ DbgDone(p)

\* Time is followed while the request sleeps in enforceRateLimit: with a
\* single request nothing reads the clocks after that.
SleepTick ==
  /\ \E p \in Jobs : pc[p] = "rate_sleep" /\ sleepLeft[p] > 0
  /\ Tick

\* One analysis request and the debug endpoints on the same server.
NextServer ==
  \/ \E p \in {1} : Submit(p)
  \/ \E p \in {1} : Launch(p)
  \/ SleepTick
  \/ \E p \in {1} : JobStep(p)
  \/ \E p \in {1} : JobSessionStep(p)
  \/ \E p \in {1} \cup Endpoints : GetBrowserStep(p)
  \/ \E p \in {1} \cup Endpoints : NewPageStep(p)
  \/ \E p \in Endpoints : CloseBrowserStep(p)
  \/ \E p \in Endpoints : EndpointStep(p)

\* The server has served requests before, the last of them started long
\* ago and passed enforceRateLimit just now; its browser has disconnected
\* since; the session file is cut short, beside its backup.
InitServer ==
  /\ InitCtl
  /\ InitLocalsAt
  /\ nextGen = MaxGen
  /\ InitBrowser
  /\ queue = <<>>
  /\ sinceLaunch = RequestDelay
  /\ sinceRequest = 0
  /\ sleepLeft = [p \in Procs |-> 0]
  /\ submitSeq = <<>>
  /\ startSeq = <<>>
  /\ doneSeq = <<>>
  /\ startGap = RequestDelay
  /\ authUrl = [p \in Procs |-> "none"]
  /\ creds = TRUE
  /\ primary = Partial
  /\ bak = Record(MaxGen, 1)
  /\ budget = 0

SpecServer == InitServer /\ [][NextServer]_vars

\* --------------------------------------------- saves and process crashes
SaveLabels ==
  {"save_acquire", "save_wait", "save_snap", "aw_write", "aw_write2",
   "aw_backup", "aw_backup2", "aw_rename"}

\* The process stops at any await: every task and the module state of
\* session.ts are gone, the files stay as they are, and the process starts
\* again.
Crash ==
  /\ \E p \in Callers : pc[p] \in SaveLabels /\ crashed' = pc[p]
  /\ pc' = [p \in Procs |-> "idle"]
  /\ stack' = [p \in Procs |-> <<>>]
  /\ retval' = [p \in Procs |-> FALSE]
  /\ exc' = [p \in Procs |-> FALSE]
  /\ lockPromise' = FALSE
  /\ releaseLock' = FALSE
  /\ owner' = 0
  /\ tmp' = [p \in Procs |-> Absent]
  /\ payload' = [p \in Procs |-> Absent]
  /\ copySrc' = [p \in Procs |-> Absent]
  /\ loadData' = [p \in Procs |-> Absent]
  /\ probe' = [p \in Procs |-> NoProbe]
  /\ snapsRejected' = [p \in Procs |-> FALSE]
  /\ UNCHANGED <<primary, bak, nextGen, budget, pageJar, injected, clock,
                 calls, scrapeVars, dedupVars, cachedBefore, bulkVars,
                 brVars, schedVars>>

SaveCall(p) ==
  /\ pc[p] = "idle"
  /\ budget > 0
  /\ budget' = budget - 1
  /\ Call(p, "save_acquire", "idle")
  /\ UNCHANGED <<retval, exc, lockVars, fileVars, locVars, nextGen>>
  /\ UNCHANGED nonSess

SaveStep(p) ==
  \/ SaveAcquire(p) \/ SaveSnap(p) \/ AwWriteBegin(p) \/ AwWriteEnd(p)
  \/ AwBackupBegin(p) \/ AwBackupEnd(p) \/ AwRename(p)

InitCrash ==
  /\ InitCtl
  /\ InitLocals
  /\ InitBrowser
  /\ InitSched
  /\ creds = TRUE
  /\ primary \in {Record(1, 0), Record(1, 1)}
  /\ bak \in {Absent, Record(0, 1)}
  /\ budget = MaxCalls

NextCrash ==
  \/ \E p \in Callers : SaveCall(p)
  \/ \E p \in Callers : SaveStep(p)
  \/ Crash

SpecCrash == InitCrash /\ [][NextCrash]_vars

\* ------------------------------------------- session.ts: the cookie data
\* The pure functions of session.ts on cookies and the stored record, and
\* saveSession, loadSession and ensureFreshSession as one task runs them on
\* that data.  A domain string is the sequence of its parts: " " for white
\* space, "." for a dot, and the host names.
MsPerSec == 1000

\* CookieParam
Cookie(n, d, v, e) ==
  [name |-> n, domain |-> d, path |-> "/", value |-> v, hasExpires |-> TRUE,
   expires |-> e]

COOKIE_ALLOWED_DOMAINS ==
  {<<".", "linkedin.com">>, <<"linkedin.com">>, <<"www.linkedin.com">>,
   <<".", "www.linkedin.com">>, <<".", "api.linkedin.com">>,
   <<"api.linkedin.com">>}

\* String.prototype.trim
RECURSIVE TrimLeft(_)
TrimLeft(d) == IF d # <<>> /\ Head(d) = " " THEN TrimLeft(Tail(d)) ELSE d

RECURSIVE TrimRight(_)
TrimRight(d) ==
  IF d # <<>> /\ d[Len(d)] = " " THEN TrimRight(SubSeq(d, 1, Len(d) - 1)) ELSE d

Trim(d) == TrimRight(TrimLeft(d))

\* domain.replace(/^\./, '')
StripDot(d) == IF d # <<>> /\ Head(d) = "." THEN Tail(d) ELSE d

\* filterAllowed: the cookies whose trimmed domain, or that domain without
\* its leading dot, is in the allow-list; the cookie is kept as it is.
filterAllowed(cs) ==
  {c \in cs :
     LET d == Trim(c.domain)
     IN d # <<>> /\ (d \in COOKIE_ALLOWED_DOMAINS
                       \/ StripDot(d) \in COOKIE_ALLOWED_DOMAINS)}

\* expires is compared with Date.now() without the conversion to
\* milliseconds.
isExpiredUnscaled(c, now) ==
  IF ~c.hasExpires \/ c.expires = 0
    THEN FALSE
    ELSE c.expires > 0 /\ now > c.expires

\* isExpired: expires is in seconds, Date.now() in milliseconds; undefined
\* and 0 never expire, and neither does a negative value.
isExpired(c, now) ==
  IF ~c.hasExpires \/ c.expires = 0
    THEN FALSE
    ELSE c.expires * MsPerSec > 0 /\ now > c.expires * MsPerSec

\* StoredCookies as JSON.stringify writes it and JSON.parse reads it back:
\* savedAt, lastValidatedAt (0 when the field is missing) and the cookies.
Stored(cs, saved, validated) ==
  [kind |-> "json", gen |-> saved, count |-> Cardinality(cs), cookies |-> cs,
   validated |-> validated]

\* page.cookies(u) for the three COOKIE_SNAPSHOT_URLS, all of them pages of
\* www.linkedin.com: the cookies a request to that host carries.
ForSnapshotUrls(c) ==
  \/ c.domain = <<"www.linkedin.com">>
  \/ /\ c.domain # <<>>
     /\ Head(c.domain) = "."
     /\ Tail(c.domain) \in {<<"www.linkedin.com">>, <<"linkedin.com">>}

\* if (c && c.name && c.value) collected.push(c)
Collected(jar) ==
  {c \in jar : ForSnapshotUrls(c) /\ c.name # "" /\ c.value # ""}

\* `${c.name}|${c.domain}|${c.path || '/'}`.  A name may hold a "|", but
\* the domain of a cookie that passed filterAllowed and the path of a cookie
\* of a snapshot URL do not, so the string stands for the triple.
DedupKey(c) == <<c.name, c.domain, IF c.path = "" THEN "/" ELSE c.path>>

\* one cookie for each (name|domain|path), on the jar of a page, whose
\* cookies differ in that key
Dedup(cs) ==
  {CHOOSE c \in cs : DedupKey(c) = k : k \in {DedupKey(c) : c \in cs}}

\* The first cookie met with a key stays.
RECURSIVE DedupSeqFirst(_)
DedupSeqFirst(cs) ==
  IF cs = <<>>
    THEN <<>>
    ELSE LET m == DedupSeqFirst(SubSeq(cs, 1, Len(cs) - 1))
             c == cs[Len(cs)]
         IN IF \E i \in 1..Len(m) : DedupKey(m[i]) = DedupKey(c)
              THEN m
              ELSE Append(m, c)

\* for (const c of cookies) dedup.set(key, c); Array.from(dedup.values()):
\* a key keeps the place of its first cookie and the value of its last.
RECURSIVE DedupSeq(_)
DedupSeq(cs) ==
  IF cs = <<>>
    THEN <<>>
    ELSE LET m == DedupSeq(SubSeq(cs, 1, Len(cs) - 1))
             c == cs[Len(cs)]
         IN IF \E i \in 1..Len(m) : DedupKey(m[i]) = DedupKey(c)
              THEN [i \in 1..Len(m) |->
                      IF DedupKey(m[i]) = DedupKey(c) THEN c ELSE m[i]]
              ELSE Append(m, c)

\* The cookies of the record, from the cookies of the fulfilled snapshots in
\* the order they were read.
SaveCookies(cs, now) ==
  DedupSeq(SelectSeq(cs, LAMBDA c : /\ c.name # "" /\ c.value # ""
                                    /\ c \in filterAllowed({c})
                                    /\ ~isExpired(c, now)))

\* The payload saveSession builds from the page at time now.
SavePayload(jar, now) ==
  Stored(Dedup({c \in filterAllowed(Collected(jar)) : ~isExpired(c, now)}),
         now, now)

\* Only the allow-list is applied to the stored cookies.
LoadCookiesUnfiltered(data, now) == filterAllowed(data.cookies)

\* filterAllowed(data.cookies).filter((c) => !isExpired(c))
LoadCookies(data, now) ==
  {c \in filterAllowed(data.cookies) : ~isExpired(c, now)}

\* What loadSession parses: the session file, or the backup when the file
\* is there, not empty and unparsable; Absent stands for `return false`.
LoadSource ==
  IF ~Exists(primary) \/ primary.kind = "empty"
    THEN Absent
    ELSE IF Parses(primary)
      THEN primary
      ELSE IF Exists(bak) /\ Parses(bak) THEN bak ELSE Absent

\* Every record is taken for stale.
RecordAgeStale(f, now) == now

\* ensureFreshSession: Date.now() - (lastValidatedAt || savedAt || 0), with
\* both 0 when the file is missing or unreadable.
RecordAge(f, now) ==
  IF Parses(f)
    THEN now - (IF f.validated # 0 THEN f.validated ELSE f.gen)
    ELSE now

\* A call starts while the caller has calls left ...
CanCall == budget > 0

\* ... and ends with value v after n page.goto calls.
NoteCall(op, v, n) ==
  LET call == [op |-> op, value |-> v, navs |-> n, at |-> clock]
  IN /\ calls' = IF calls = <<>> THEN <<call>> ELSE <<calls[Len(calls)], call>>
     /\ budget' = budget - 1

\* atomicWrite as a whole: with ok the payload replaces the session file;
\* the backup copy of the previous file is made or fails unnoticed.
AtomicWrite(ok) ==
  /\ primary' = IF ok THEN SavePayload(pageJar, clock) ELSE primary
  /\ bak' \in (IF Exists(primary) THEN {primary, bak} ELSE {bak})

\* saveSession(page), called with the lock free; its catch logs a failed
\* write.
DataSave ==
  /\ CanCall
  /\ ~lockPromise
  /\ \E ok \in BOOLEAN :
       /\ AtomicWrite(ok)
       /\ NoteCall("save", IF ok THEN "saved" ELSE "failed", 0)
  /\ UNCHANGED <<pageJar, injected, clock, scrapeVars, dedupVars, srvVars, bulkVars>>
  /\ UNCHANGED <<ctlVars, lockVars, tmp, locVars, nextGen, crashed, brVars,
                 schedVars>>

\* loadSession(page) on a new page, called with the lock free.  No cookie
\* left: false.  Else setCookie (which may throw), validateSession, and on
\* true refreshAndSave, whose saveSession awaits the lock this loadSession
\* holds.
DataLoad ==
  /\ CanCall
  /\ ~lockPromise
  /\ LET data == LoadSource
         cookies == IF Parses(data) THEN LoadCookies(data, clock) ELSE {}
     IN IF cookies = {}
          THEN /\ injected' = {}
               /\ NoteCall("load", "false", 0)
               /\ UNCHANGED lockVars
          ELSE \/ /\ injected' = {}
                  /\ NoteCall("load", "throws", 0)
                  /\ UNCHANGED lockVars
               \/ /\ injected' = cookies
                  /\ \E o \in Observations :
                       IF validateSession(o)
                         THEN /\ lockPromise' = TRUE
                              /\ releaseLock' = TRUE
                              /\ owner' = 1
                              /\ NoteCall("load", "blocked", 4)
                         ELSE /\ NoteCall("load", "false", 1)
                              /\ UNCHANGED lockVars
  /\ UNCHANGED <<pageJar, clock, scrapeVars, dedupVars, srvVars, bulkVars>>
  /\ UNCHANGED <<ctlVars, fileVars, locVars, nextGen, crashed, brVars,
                 schedVars>>

\* ensureFreshSession(page): a fresh record returns true at once; else
\* validateSession, false when it fails, and refreshAndSave (three gotos and
\* saveSession) when it succeeds.
DataEnsureFresh ==
  /\ CanCall
  /\ IF RecordAge(primary, clock) < MaxAgeMs
       THEN /\ NoteCall("ensureFresh", "true", 0)
            /\ UNCHANGED <<primary, bak>>
       ELSE \E o \in Observations :
              IF ~validateSession(o)
                THEN /\ NoteCall("ensureFresh", "false", 1)
                     /\ UNCHANGED <<primary, bak>>
                ELSE IF lockPromise
                  THEN /\ NoteCall("ensureFresh", "blocked", 4)
                       /\ UNCHANGED <<primary, bak>>
                  ELSE \E ok \in BOOLEAN :
                         /\ AtomicWrite(ok)
                         /\ NoteCall("ensureFresh", "true", 4)
  /\ UNCHANGED <<pageJar, injected, clock, scrapeVars, dedupVars, srvVars, bulkVars>>
  /\ UNCHANGED <<ctlVars, lockVars, tmp, locVars, nextGen, crashed, brVars,
                 schedVars>>

\* Time passes between two calls.
DataTick ==
  /\ clock + TickMs <= MaxClock
  /\ clock' = clock + TickMs
  /\ UNCHANGED <<pageJar, injected, calls, scrapeVars, dedupVars, srvVars, bulkVars>>
  /\ UNCHANGED <<ctlVars, sessVars, crashed, brVars, schedVars>>

\* The cookies a page can hold ...
liAt == Cookie("li_at", <<".", "linkedin.com">>, "tok", 9)
jsession == Cookie("JSESSIONID", <<".", "www.linkedin.com">>, "ajax", -1)
lidc == Cookie("lidc", <<".", "linkedin.com">>, "b", 6)
auth == Cookie("auth", <<".", "example.com">>, "abc", 0)
apiTok == Cookie("tok", <<".", "api.linkedin.com">>, "x", 0)
blank == Cookie("flag", <<".", "linkedin.com">>, "", 0)

\* ... and those only a file can: an expired one and domains no browser
\* reports.
bcookie == Cookie("bcookie", <<".", "linkedin.com">>, "old", 4)
dotted == Cookie("li_at", <<".", ".", "linkedin.com">>, "tok", 0)
padded == Cookie("li_at", <<" ", "linkedin.com">>, "tok", 0)

PageJars ==
  {j \in SUBSET {liAt, jsession, lidc, auth, apiTok, blank} :
     Cardinality(j) <= MaxJar}

InitialFiles ==
  {Absent, Partial,
   Stored({bcookie}, 1000, 1000),
   Stored({bcookie, liAt}, 4000, 4000),
   Stored({lidc, auth}, 4000, 0),
   Stored({dotted}, 1000, 1000),
   Stored({padded, jsession}, 4000, 4000)}

InitialBackups == {Absent, Stored({liAt, lidc}, 1000, 1000)}

InitCookies ==
  /\ InitCtl
  /\ InitTasks
  /\ nextGen = 2
  /\ budget = MaxCalls
  /\ InitBrowser
  /\ InitSched
  /\ creds = TRUE
  /\ primary \in InitialFiles
  /\ bak \in InitialBackups
  /\ pageJar \in PageJars
  /\ injected = {}
  /\ clock = StartClock
  /\ calls = <<>>
  /\ InitPure

NextCookies == DataSave \/ DataLoad \/ DataEnsureFresh \/ DataTick

SpecCookies == InitCookies /\ [][NextCookies]_vars

\* ------------------------------- linkedinScraper.ts: the extraction data
\* What scrapeLinkedInProfile makes of the pages of the target profile once
\* authenticateLinkedIn has returned the page.  An item is one
\* li.pvs-list__paged-list-item: pos, comp, dur and desc are what pick()
\* yields for the position, company, duration and description selectors
\* ("" when none matches or the match has no text), spans the texts of its
\* span elements in document order.
Item(pos, comp, dur, desc, spans) ==
  [pos |-> pos, comp |-> comp, dur |-> dur, desc |-> desc, spans |-> spans]

\* clean(): white space collapsed and trimmed
clean(t) ==
  CASE t = " " -> ""
    [] t = " Acme " -> "Acme"
    [] OTHER -> t

\* Array.from(new Set(xs)): the first occurrence of each value, in order
RECURSIVE Distinct(_)
Distinct(xs) ==
  IF xs = <<>>
    THEN <<>>
    ELSE LET init == Distinct(SubSeq(xs, 1, Len(xs) - 1))
             last == xs[Len(xs)]
         IN IF \E i \in 1..Len(init) : init[i] = last
              THEN init
              ELSE Append(init, last)

MaxLines == 8

\* The cleaned span texts with the repetitions left in.
heuristicLinesRepeated(spans) ==
  LET texts == SelectSeq([i \in 1..Len(spans) |-> clean(spans[i])],
                         LAMBDA t : t # "")
  IN SubSeq(texts, 1, IF Len(texts) < MaxLines THEN Len(texts) ELSE MaxLines)

\* heuristicLines: the distinct non-empty cleaned span texts, at most eight
heuristicLines(spans) ==
  LET texts == Distinct(SelectSeq([i \in 1..Len(spans) |-> clean(spans[i])],
                                  LAMBDA t : t # ""))
  IN SubSeq(texts, 1, IF Len(texts) < MaxLines THEN Len(texts) ELSE MaxLines)

\* /·|month|year|present|20\d{2}/i on the texts a page can show here
DurationLike(t) == t \in {"Jan 2022 - Present", "May 2019 - Dec 2021"}

\* The entry extractExperience maps one item to.
ExtractItem(it) ==
  LET lines == heuristicLines(it.spans)
      dated == SelectSeq(lines, DurationLike)
  IN [position |-> IF it.pos # "" THEN it.pos
                   ELSE IF Len(lines) >= 1 THEN lines[1] ELSE "",
      company |-> IF it.comp # "" THEN it.comp
                  ELSE IF Len(lines) >= 2 THEN lines[2] ELSE "",
      duration |-> IF it.dur # "" THEN it.dur
                   ELSE IF dated # <<>> THEN dated[1] ELSE "",
      description |-> it.desc]

\* extractExperience: every item mapped, then .filter(x => x.position ||
\* x.company)
extractExperience(items) ==
  SelectSeq([i \in 1..Len(items) |-> ExtractItem(items[i])],
            LAMBDA x : x.position # "" \/ x.company # "")

\* A view of the profile: its items, or ok = FALSE when page.evaluate throws
\* on it (the execution context was destroyed, the target closed).
View(ok, items) == [ok |-> ok, items |-> items]

\* What extractBasics finds on the main view ("" for a missing node).
Basics(ok, name, title, location) ==
  [ok |-> ok, name |-> name, title |-> title, location |-> location]

\* extractExperience(page).catch(() => [])
ExperienceOrNone(view) ==
  IF view.ok THEN extractExperience(view.items) ELSE <<>>

\* parseLinkedInProfile: normalizeWork
normalizeWork(items) ==
  [i \in 1..Len(items) |->
     [company |-> IF items[i].company # "" THEN items[i].company ELSE "Unknown",
      position |-> IF items[i].position # "" THEN items[i].position ELSE "Unknown",
      duration |-> items[i].duration,
      startDate |-> "",
      endDate |-> "",
      description |-> items[i].description]]

StrengthStep == 20
StrengthMax == 100

\* parseLinkedInProfile(rawData)
parseLinkedInProfile(r) ==
  [kind |-> "profile",
   name |-> IF r.name # "" THEN r.name ELSE "Unknown",
   title |-> IF r.title # "" THEN r.title ELSE "No title",
   location |-> IF r.location # "" THEN r.location ELSE "Unknown",
   summary |-> "No summary available",
   workHistory |-> normalizeWork(r.workHistory),
   connections |-> 0,
   profileStrength |->
     IF Len(r.workHistory) * StrengthStep + StrengthStep < StrengthMax
       THEN Len(r.workHistory) * StrengthStep + StrengthStep
       ELSE StrengthMax]

\* what the scrape pipeline never writes
nonScrape == <<stack, retval, exc, sessVars, crashed, brVars, schedVars,
               pageJar, injected, clock, calls, dedupVars, srvVars, bulkVars>>

\* The first extraction always decides for the main profile.
RunDetailsNoFallback(p) ==
  /\ pc[p] = "scrape_details"
  /\ workHistory' = ExperienceOrNone(views.details)
  /\ Goto(p, "scrape_main")
  /\ UNCHANGED <<views, raw, profile, nonScrape>>

\* let workHistory = await extractExperience(page).catch(() => []) on the
\* details page; if (workHistory.length === 0) the fallback follows.
RunDetails(p) ==
  /\ pc[p] = "scrape_details"
  /\ workHistory' = ExperienceOrNone(views.details)
  /\ Goto(p, IF workHistory' = <<>> THEN "scrape_fallback" ELSE "scrape_main")
  /\ UNCHANGED <<views, raw, profile, nonScrape>>

\* the main profile is warmed, expandShowMore, and extractExperience runs
\* again
RunFallback(p) ==
  /\ pc[p] = "scrape_fallback"
  /\ workHistory' = ExperienceOrNone(views.main)
  /\ Goto(p, "scrape_main")
  /\ UNCHANGED <<views, raw, profile, nonScrape>>

\* const basics = await extractBasics(page): its exception is the job's,
\* else { ...basics, workHistory, education: [], skills: [], connections: 0 }
\* is what analyzeLinkedInProfile resolves with.
RunBasics(p) ==
  /\ pc[p] = "scrape_main"
  /\ IF views.basics.ok
       THEN /\ raw' = [kind |-> "raw", name |-> views.basics.name,
                       title |-> views.basics.title,
                       location |-> views.basics.location, summary |-> "",
                       workHistory |-> workHistory, connections |-> 0]
            /\ Goto(p, "resolved")
       ELSE /\ UNCHANGED raw
            /\ Goto(p, "rejected")
  /\ UNCHANGED <<views, workHistory, profile, nonScrape>>

\* analysisController: const profileData = parseLinkedInProfile(raw)
RunParse(p) ==
  /\ pc[p] = "resolved"
  /\ profile' = parseLinkedInProfile(raw)
  /\ Goto(p, "parsed")
  /\ UNCHANGED <<views, workHistory, raw, nonScrape>>

\* The items a view can hold: two whose selectors match, and four that show
\* generic spans only (with a repetition and white space, a single text, the
\* same texts as the first item, and no text at all).
jobAcme ==
  Item("Engineer", "Acme", "Jan 2022 - Present", "",
       <<"Engineer", "Acme", "Jan 2022 - Present">>)
jobInitech ==
  Item("Developer", "Initech", "May 2019 - Dec 2021", "",
       <<"Developer", "Initech", "May 2019 - Dec 2021">>)
spansRepeated == Item("", "", "", "", <<" ", "Engineer", "Engineer", " Acme ">>)
spansSingle == Item("", "", "", "", <<"Developer">>)
spansAcme == Item("", "", "", "", <<"Engineer", "Acme", "Jan 2022 - Present">>)
spansNone == Item("", "", "", "", <<" ">>)
\* ... and one of which only the description selector matches.
descOnly == Item("", "", "", "About", <<>>)

Items ==
  {jobAcme, jobInitech, spansRepeated, spansSingle, spansAcme, spansNone,
   descOnly}

MaxItems == 2

ItemLists == UNION {[1..n -> Items] : n \in 0..MaxItems}

DetailViews == {View(FALSE, <<>>)} \cup {View(TRUE, l) : l \in ItemLists}

MainViews ==
  {View(FALSE, <<>>), View(TRUE, <<>>), View(TRUE, <<jobInitech>>),
   View(TRUE, <<spansAcme, spansNone>>)}

BasicsViews ==
  {Basics(FALSE, "", "", ""), Basics(TRUE, "", "", ""),
   Basics(TRUE, "Ada", "Engineer", "London")}

ViewSets == [details : DetailViews, main : MainViews, basics : BasicsViews]

\* One task is at the given await, with no file and no browser yet.
InitAt(label) ==
  /\ pc = [p \in Procs |-> IF p = 1 THEN label ELSE "idle"]
  /\ stack = [p \in Procs |-> <<>>]
  /\ retval = [p \in Procs |-> FALSE]
  /\ exc = [p \in Procs |-> FALSE]
  /\ InitTasks
  /\ nextGen = 2
  /\ budget = 0
  /\ InitBrowser
  /\ InitSched
  /\ creds = TRUE
  /\ primary = Absent
  /\ bak = Absent
  /\ pageJar = {}
  /\ injected = {}
  /\ calls = <<>>
  /\ cachedBefore = [p \in Procs |-> 0]
  /\ snapsRejected = [p \in Procs |-> FALSE]

\* A job whose authenticateLinkedIn has just returned the page.
InitScrape ==
  /\ InitAt("scrape_details")
  /\ NoBulk
  /\ clock = 0
  /\ views \in ViewSets
  /\ workHistory = <<>>
  /\ raw = NoValue
  /\ profile = NoValue
  /\ snaps = <<>>
  /\ kept = <<>>

NextScrape ==
  \E p \in {1} : RunDetails(p) \/ RunFallback(p) \/ RunBasics(p) \/ RunParse(p)

SpecScrape == InitScrape /\ [][NextScrape]_vars

\* ---------------------------------- analysisController.ts: bulkAnalyze
\* What a client may put into linkedinUrls: two profile URLs, the URL of
\* another page, and a string that is no URL.
profileAlice == "https://www.linkedin.com/in/alice"
profileBob == "http://linkedin.com/in/bob-42/"
companyPage == "https://www.linkedin.com/company/acme"
plainText == "alice"

BodyStrings == {profileAlice, profileBob, companyPage, plainText}

\* z.string().url()
IsUrl(u) == u \in {profileAlice, profileBob, companyPage}

\* /^https?:\/\/(www\.)?linkedin\.com\/in\/[a-zA-Z0-9\-_%]+\/?$/.test(url)
validateLinkedInUrl(u) == u \in {profileAlice, profileBob}

MaxBulk == 10

\* z.array(z.string().url()).min(1).max(10)
BulkAnalyzeSchema(body) ==
  /\ Len(body) >= 1
  /\ Len(body) <= MaxBulk
  /\ \A i \in 1..Len(body) : IsUrl(body[i])

InvalidFormat == "Invalid LinkedIn URL format"
AnalysisFailed == "Analysis failed"

\* results.push({ url, ... }) or results.push({ url, error })
Entry(u, e) == [url |-> u, error |-> e]

nonBulk == <<stack, retval, exc, sessVars, crashed, brVars, schedVars, pageJar,
            injected, clock, calls, scrapeVars, dedupVars, srvVars>>

\* validateBody(BulkAnalyzeSchema) and the checks at the head of bulkAnalyze:
\* status 400, or the loop begins.
BulkBody(p) ==
  /\ pc[p] = "bulk_body"
  /\ IF BulkAnalyzeSchema(linkedinUrls)
       THEN /\ Goto(p, "bulk_next")
            /\ cursor' = 1
            /\ results' = <<>>
       ELSE /\ Goto(p, "bulk_refused")
            /\ UNCHANGED <<cursor, results>>
  /\ UNCHANGED <<linkedinUrls, nonBulk>>

\* for (const url of linkedinUrls): the loop ends and res.json is sent, or
\* the URL fails validateLinkedInUrl and gets its error entry, or
\* analyzeLinkedInProfile(url) is awaited.
BulkNext(p) ==
  /\ pc[p] = "bulk_next"
  /\ IF cursor > Len(linkedinUrls)
       THEN /\ Goto(p, "bulk_done")
            /\ UNCHANGED <<cursor, results>>
       ELSE IF ~validateLinkedInUrl(linkedinUrls[cursor])
         THEN /\ results' = Append(results, Entry(linkedinUrls[cursor], InvalidFormat))
              /\ cursor' = cursor + 1
              /\ UNCHANGED pc
         ELSE /\ Goto(p, "bulk_analyze")
              /\ UNCHANGED <<cursor, results>>
  /\ UNCHANGED <<linkedinUrls, nonBulk>>

\* A failed analysis ends the loop after its error entry.
BulkAnalyzedThenStop(p) ==
  /\ pc[p] = "bulk_analyze"
  /\ \/ /\ results' = Append(results, Entry(linkedinUrls[cursor], "none"))
        /\ cursor' = cursor + 1
        /\ Goto(p, "bulk_next")
     \/ /\ results' = Append(results, Entry(linkedinUrls[cursor], AnalysisFailed))
        /\ cursor' = cursor + 1
        /\ Goto(p, "bulk_done")
  /\ UNCHANGED <<linkedinUrls, nonBulk>>

\* The scrape, the parse and the analyses of one profile have settled: the
\* entry of the profile is pushed, or the catch pushes its error entry; the
\* loop goes on either way.
BulkAnalyzed(p) ==
  /\ pc[p] = "bulk_analyze"
  /\ \E e \in {"none", AnalysisFailed} :
       results' = Append(results, Entry(linkedinUrls[cursor], e))
  /\ cursor' = cursor + 1
  /\ Goto(p, "bulk_next")
  /\ UNCHANGED <<linkedinUrls, nonBulk>>

MaxUrls == 3

\* a full body, and one that is one URL too long
tenUrls == [i \in 1..MaxBulk |-> IF i % 2 = 1 THEN profileAlice ELSE companyPage]
elevenUrls == [i \in 1..(MaxBulk + 1) |-> profileBob]

Bodies ==
  UNION {[1..n -> BodyStrings] : n \in 0..MaxUrls} \cup {tenUrls, elevenUrls}

\* POST /api/bulk-analyze has arrived.
InitBulk ==
  /\ InitAt("bulk_body")
  /\ clock = 0
  /\ views = NoValue
  /\ workHistory = <<>>
  /\ raw = NoValue
  /\ profile = NoValue
  /\ snaps = <<>>
  /\ kept = <<>>
  /\ linkedinUrls \in Bodies
  /\ results = <<>>
  /\ cursor = 0

NextBulk == \E p \in {1} : BulkBody(p) \/ BulkNext(p) \/ BulkAnalyzed(p)

SpecBulk == InitBulk /\ [][NextBulk]_vars

\* ---------------------------- session.ts: saveSession on its snapshots
\* saveSession from the fulfilled snapshots to the cookies of the payload:
\* collected, filterAllowed, !isExpired, dedup.
SaveDedup(p) ==
  /\ pc[p] = "save_snap"
  /\ kept' = SaveCookies(snaps, clock)
  /\ Goto(p, "aw_write")
  /\ UNCHANGED <<snaps, scrapeVars, stack, retval, exc, sessVars, crashed,
                 brVars, schedVars, pageJar, injected, clock, calls,
                 srvVars, bulkVars>>

\* Time passes before the snapshots are read.
SnapTick(p) ==
  /\ pc[p] = "save_snap"
  /\ clock + TickMs <= MaxClock
  /\ clock' = clock + TickMs
  /\ UNCHANGED <<pc, snaps, kept, scrapeVars, stack, retval, exc, sessVars,
                 crashed, brVars, schedVars, pageJar, injected, calls,
                 srvVars, bulkVars>>

\* li_at as a later snapshot reports it, and as an entry without a path
liAtNew == [liAt EXCEPT !.value = "new"]
liAtBare == [liAt EXCEPT !.path = "", !.value = "bare"]

SnapCookies == {liAt, liAtNew, liAtBare, lidc, jsession, auth, blank}

MaxSnap == 3

\* page.cookies(u) of the snapshot URLs that were fulfilled, one after
\* the other
SnapLists == UNION {[1..n -> SnapCookies] : n \in 0..MaxSnap}

\* saveSession holds the lock and its snapshots have settled.
InitDedup ==
  /\ InitAt("save_snap")
  /\ NoBulk
  /\ clock = StartClock
  /\ views = NoValue
  /\ workHistory = <<>>
  /\ raw = NoValue
  /\ profile = NoValue
  /\ snaps \in SnapLists
  /\ kept = <<>>

NextDedup == \E p \in {1} : SaveDedup(p) \/ SnapTick(p)

SpecDedup == InitDedup /\ [][NextDedup]_vars

\* ---------------------------------------------------------------- claims
\* The labels between `await acquireLock()` and `release()` of saveSession,
\* loadSession and clearSessionFile.
CriticalLabels ==
  {"save_snap", "aw_write", "aw_write2", "aw_backup", "aw_backup2",
   "aw_rename", "load_read", "load_read_bak", "load_inject", "load_validate",
   "load_refresh", "load_saved", "clear_unlink"}

InStack(p, label) == \E i \in 1..Len(stack[p]) : stack[p][i] = label

\* p is between the acquireLock and the release of one of its operations
\* (a loadSession that called saveSession is still inside its own).
InCritical(p) == pc[p] \in CriticalLabels \/ InStack(p, "load_saved")

\* C7: the session mutex gives mutual exclusion: at most one of the
\* concurrent saveSession, loadSession and clearSessionFile calls is inside
\* its critical section at any time.
C7_MutualExclusion ==
  Cardinality({p \in Procs : InCritical(p)}) <= 1

\* C8: no unbounded wait in the session store: every call of load, save,
\* ensureFresh (and clear) eventually returns to its caller, given that every
\* step it issues returns.
C8_CallsReturn ==
  \A p \in Callers : (pc[p] # "idle") ~> (pc[p] = "idle")

\* C9: crash-safe save: at every step of a save, and after a crash at any
\* step, the session file holds a complete record: each change of it installs
\* the complete payload of the saveSession that renames, and a file that
\* parsed at the start parses after any sequence of saves and crashes.
C9_CrashSafe ==
  /\ [](Parses(primary))
  /\ [][primary' # primary =>
          \E p \in Callers : pc[p] = "aw_rename" /\ primary' = payload[p]
                               /\ Parses(payload[p])]_vars

\* a save was interrupted while its backup copy was half done
C9_Witness ==
  /\ crashed = "aw_backup2"
  /\ bak = Empty
  /\ Parses(primary)

\* C10: corruption recovery: when loadSession reads a session file that
\* exists but is not valid JSON (empty and truncated files included) while a
\* valid backup exists, it goes on to read the backup.
C10_BackupRecovery ==
  [][\A p \in Procs :
       (pc[p] = "load_read" /\ pc'[p] # "load_read"
          /\ Exists(primary) /\ ~Parses(primary)
          /\ Parses(bak) /\ HasCookies(bak))
       => pc'[p] = "load_read_bak"]_vars

IsPrefix(a, b) == Len(a) <= Len(b) /\ \A i \in 1..Len(a) : a[i] = b[i]

\* C1: pacing: every job the limiter starts after another one starts at
\* least the configured minimum interval after that one's start.
C1_Pacing ==
  Len(startSeq) >= 2 => startGap >= RequestDelay

\* a second job started, after the first had settled at once
C1_Witness ==
  /\ Len(startSeq) = 2
  /\ Len(doneSeq) >= 1
  /\ startGap >= RequestDelay

\* C2: single concurrency: at most one scheduled scrape job is executing
\* (between its start by the limiter and its settling) at any time.
C2_SingleJob ==
  Cardinality({p \in Procs : Executing(p)}) <= 1

\* one job is extracting while another one waits in the queue
C2_Witness ==
  \E p, q \in Jobs : pc[p] = "scrape_main" /\ pc[q] = "queued"

\* C3: analyzeLinkedInProfile never rejects: no job's promise is rejected.
C3_NeverRejects ==
  \A p \in Procs : pc[p] # "rejected"

\* C4: no job is dropped: every job passed to schedule eventually settles.
C4_JobsSettle ==
  \A p \in Jobs : (pc[p] = "queued") ~> (pc[p] \in {"resolved", "rejected"})

\* C5: FIFO: jobs start in the order schedule was called for them, and they
\* settle in that order.
C5_Fifo ==
  /\ IsPrefix(startSeq, submitSeq)
  /\ IsPrefix(doneSeq, submitSeq)

\* job 2 was submitted before job 1, and both settled in that order
C5_Witness ==
  /\ submitSeq = <<2, 1>>
  /\ doneSeq = <<2, 1>>

\* C6: at most one live browser process exists at any time, and a live
\* browser is the cached one (or the one its launcher is about to cache).
C6_OneBrowser ==
  /\ Cardinality(alive) <= 1
  /\ \A b \in alive :
       b = browser \/ \E p \in Procs : pc[p] = "gb_assign" /\ handle[p] = b

\* The session-store call that ended last on the cookie data.
LastCall == calls[Len(calls)]

\* The expires time of c is a moment before t (t in milliseconds).
PastExpiry(c, t) == c.hasExpires /\ c.expires > 0 /\ c.expires * MsPerSec < t

\* C11: expiry filtering: loadSession never injects a stored cookie whose
\* expires time is in the past, and when every stored cookie is expired it
\* returns false without throwing, without injecting and without navigating.
C11_ExpiryFiltering ==
  (calls # <<>> /\ LastCall.op = "load") =>
     /\ \A c \in injected : ~PastExpiry(c, LastCall.at)
     /\ (/\ Parses(LoadSource)
         /\ LoadSource.cookies # {}
         /\ \A c \in LoadSource.cookies : PastExpiry(c, LastCall.at))
        => (LastCall.value = "false" /\ LastCall.navs = 0 /\ injected = {})

\* a record with an expired and a live cookie was loaded: the live one alone
\* was injected
C11_Witness ==
  /\ calls # <<>>
  /\ LastCall.op = "load"
  /\ Parses(primary)
  /\ primary.cookies = {bcookie, liAt}
  /\ injected = {liAt}

\* a save whose write succeeded, directly followed by a load that got past
\* page.setCookie
SaveThenLoad ==
  /\ Len(calls) = 2
  /\ calls[1].op = "save"
  /\ calls[1].value = "saved"
  /\ calls[2].op = "load"
  /\ calls[2].value # "throws"

\* C12 as stated: save followed by load into a fresh page injects the cookies
\* the page had at save time, except those expired at load time.
C12_RoundTrip ==
  SaveThenLoad => injected = {c \in pageJar : ~PastExpiry(c, calls[2].at)}

\* What a save keeps of a page: the cookies the www.linkedin.com snapshot
\* returns, with a name and a value, of an allow-listed domain.
Kept(c) ==
  /\ c.domain \in {<<".", "linkedin.com">>, <<"www.linkedin.com">>,
                   <<".", "www.linkedin.com">>}
  /\ c.domain \in COOKIE_ALLOWED_DOMAINS
  /\ c.name # ""
  /\ c.value # ""

\* C12 amended: save followed by load into a fresh page injects exactly the
\* cookies of the page that the save keeps (allow-listed domain, returned for
\* the snapshot URLs, with name and value) and that are not expired at load
\* time; the cookie of .example.com is not among them.
C12_RoundTripAllowed ==
  SaveThenLoad =>
     /\ injected = {c \in pageJar : Kept(c) /\ ~PastExpiry(c, calls[2].at)}
     /\ auth \notin injected

\* a page with li_at and the .example.com cookie was saved and loaded
C12_Witness ==
  /\ SaveThenLoad
  /\ pageJar = {liAt, auth}
  /\ injected = {liAt}

\* C13: allow-list: every cookie load injects, and every cookie a save wrote
\* to the session file, has a domain of the fixed allow-listed set.
C13_AllowList ==
  /\ \A c \in injected : c.domain \in COOKIE_ALLOWED_DOMAINS
  /\ (calls # <<>> /\ LastCall.op = "save" /\ LastCall.value = "saved") =>
        \A c \in primary.cookies : c.domain \in COOKIE_ALLOWED_DOMAINS

\* The page is authenticated: /feed/ was reached without a navigation error,
\* the URL is no login, checkpoint or challenge path, the landmark appeared.
Authenticated(o) == ~o.navError /\ ~BadUrl(o.url) /\ o.landmark

\* C14: loadSession reports true only if the validation found the page
\* authenticated.
C14_TrueOnlyIfAuthenticated ==
  \A p \in Procs : pc[p] = "load_saved" => Authenticated(probe[p])

\* The step is a call of ensureFreshSession.
EnsureFreshStep ==
  /\ calls' # calls
  /\ calls'[Len(calls')].op = "ensureFresh"

\* The record's last-validated timestamp is younger than the threshold ...
FreshRecord ==
  Parses(primary) /\ primary.validated # 0
    /\ clock - primary.validated < MaxAgeMs

\* ... or it is not, or there is no readable record.
StaleRecord ==
  \/ ~Parses(primary)
  \/ primary.validated # 0 /\ clock - primary.validated >= MaxAgeMs

\* C15: ensureFreshSession on a fresh record returns true without navigating
\* and leaves the session file and its backup as they are; on a stale,
\* missing or unreadable record it validates, saves only after a successful
\* validation, and returns false with the files unchanged otherwise.
C15_EnsureFresh ==
  [][EnsureFreshStep =>
       LET call == calls'[Len(calls')]
       IN /\ FreshRecord =>
               /\ call.value = "true"
               /\ call.navs = 0
               /\ UNCHANGED <<primary, bak>>
          /\ StaleRecord =>
               /\ call.navs >= 1
               /\ (primary' # primary \/ bak' # bak) => call.value = "true"
               /\ call.value = "false" => UNCHANGED <<primary, bak>>]_vars

\* a fresh record was found and nothing was done; a stale one was validated
\* and saved again
C15_Witness ==
  /\ Len(calls) = 2
  /\ calls[1] = [op |-> "ensureFresh", value |-> "true", navs |-> 0,
                 at |-> StartClock]
  /\ calls[2].op = "ensureFresh"
  /\ calls[2].navs = 4
  /\ calls[2].value = "true"
  /\ primary.gen = calls[2].at

\* The awaits of newPage itself (those of its getBrowser calls aside).
NpLabels == {"np_got", "np_page", "np_close", "np_got2", "np_page2"}

\* This step is p's return from newPage to its caller.
NpReturns(p) ==
  /\ pc[p] \in NpLabels
  /\ stack[p] # <<>>
  /\ pc'[p] = Head(stack[p])
  /\ stack'[p] = Tail(stack[p])

\* C16: newPage retries exactly once: no call makes more than two
\* page-creation attempts; a first failure leads to the forced relaunch
\* (close, cache cleared, getBrowser again) and never to an error for the
\* caller; a failure after the relaunch is raised and never retried.
C16_RetryOnce ==
  /\ [](\A p \in Procs : attempts[p] <= 2)
  /\ [][\A p \in Procs :
          /\ (NpReturns(p) /\ exc'[p]) => pc[p] \in {"np_got2", "np_page2"}
          /\ (pc[p] = "np_close" /\ pc'[p] # "np_close") =>
                (browser' = 0 /\ pc'[p] = "gb_entry")
          /\ (pc[p] \in {"np_got2", "np_page2"} /\ pc'[p] # pc[p]) =>
                (pc'[p] = "np_page2" \/ NpReturns(p))]_vars

\* the second page creation is under way after the first one failed
C16_Witness ==
  \E p \in Procs : pc[p] = "np_page2" /\ attempts[p] = 2

C18_PageSetup ==
  \A p \in Procs :
     pageSetup[p] # {} => (ProxyAuth \cup Fingerprint) \subseteq pageSetup[p]

\* The steps that navigate to the target profile and extract from it.
ScrapeLabels == {"scrape_details", "scrape_fallback", "scrape_main"}

\* C19: a job whose credential submission landed on a checkpoint or
\* challenge page saves the cookies and does not go on to navigate to the
\* target profile and extract it.
C19_CheckpointStops ==
  \A p \in Procs :
     authUrl[p] = "/checkpoint/challenge" => pc[p] \notin ScrapeLabels

\* C20: a job for which no session was established (the URL after the login
\* is still a login path) hard-fails: it does not come back with a result.
C20_NoSessionHardFails ==
  \A p \in Procs :
     (pc[p] = "job_close" /\ retval[p]) => authUrl[p] # "/login"

\* C21: a field extractor never throws: whatever the views yield, the job
\* comes to its result, and a field whose extraction failed is there with
\* an empty value.
C21_ExtractorsNeverThrow ==
  \A p \in Procs :
     pc[p] \in {"resolved", "rejected", "parsed"} =>
        /\ pc[p] # "rejected"
        /\ raw.kind = "raw"
        /\ ~views.basics.ok =>
              raw.name = "" /\ raw.title = "" /\ raw.location = ""

\* The extraction on a view yields zero entries or throws.
YieldsNothing(view) == ~view.ok \/ extractExperience(view.items) = <<>>

FromHeuristic(it) == it.pos = "" \/ it.comp = ""

\* The items the work history of a run is taken from.
SourceItems(v) ==
  IF ~YieldsNothing(v.details)
    THEN v.details.items
    ELSE IF v.main.ok THEN v.main.items ELSE <<>>

\* A run in which an extraction failed, or a field came from the heuristic
\* fallback or from a placeholder.
Degraded(v) ==
  \/ ~v.details.ok
  \/ YieldsNothing(v.details) /\ ~v.main.ok
  \/ \E i \in 1..Len(SourceItems(v)) : FromHeuristic(SourceItems(v)[i])
  \/ v.basics.name = "" \/ v.basics.title = "" \/ v.basics.location = ""

\* What the caller gets for the views v when the job resolves.
ResultFor(v) ==
  parseLinkedInProfile(
    [kind |-> "raw", name |-> v.basics.name, title |-> v.basics.title,
     location |-> v.basics.location, summary |-> "",
     workHistory |-> IF ~YieldsNothing(v.details)
                       THEN ExperienceOrNone(v.details)
                       ELSE ExperienceOrNone(v.main),
     connections |-> 0])

\* C23: degradation is always signalled: the result of a degraded run
\* differs from the result of every run that was not degraded.
C23_DegradationSignalled ==
  \A p \in Procs :
     (pc[p] = "parsed" /\ Degraded(views)) =>
        \A v \in ViewSets :
           (v.basics.ok /\ ~Degraded(v)) => ResultFor(v) # profile

\* C24: end to end: a details view with the two entries, Jan 2022 to
\* present and May 2019 to Dec 2021, gives a result with both entries in
\* the order met, each with a start and an end date.
C24_EndToEnd ==
  \A p \in Procs :
     (/\ pc[p] \in {"rejected", "parsed"}
      /\ views.details = View(TRUE, <<jobAcme, jobInitech>>)
      /\ views.basics.ok) =>
        /\ pc[p] = "parsed"
        /\ Len(profile.workHistory) = 2
        /\ profile.workHistory[1].position = "Engineer"
        /\ profile.workHistory[2].position = "Developer"
        /\ \A i \in 1..2 :
              /\ profile.workHistory[i].startDate # ""
              /\ profile.workHistory[i].endDate # ""

\* No structure-specific selector matches in the item.
NoSelector(it) == it.pos = "" /\ it.comp = "" /\ it.dur = "" /\ it.desc = ""

\* The distinct non-empty text runs of the item, in order.
TextRuns(it) ==
  Distinct(SelectSeq([i \in 1..Len(it.spans) |-> clean(it.spans[i])],
                     LAMBDA t : t # ""))

\* position and company of e are the first and the second text run of it,
\* "" standing for a run that is not there.
TakesRuns(e, it) ==
  /\ e.position = IF Len(TextRuns(it)) >= 1 THEN TextRuns(it)[1] ELSE ""
  /\ e.company = IF Len(TextRuns(it)) >= 2 THEN TextRuns(it)[2] ELSE ""

Blank(it) == it.pos = "" /\ it.comp = "" /\ TextRuns(it) = <<>>

\* The places, in order, of the items that are not blank.
RECURSIVE NonBlank(_, _)
NonBlank(items, i) ==
  IF i > Len(items)
    THEN <<>>
    ELSE IF Blank(items[i])
      THEN NonBlank(items, i + 1)
      ELSE <<i>> \o NonBlank(items, i + 1)

NavigatesTarget(p) ==
  pc[p] \in ScrapeLabels \cup {"auth_login", "load_validate", "load_refresh",
                              "ef_validate", "dbg_nav"}

\* The limiter has started p's job, which has not settled yet.
Admitted(p) ==
  /\ p \in Jobs
  /\ \E i \in 1..Len(startSeq) : startSeq[i] = p
  /\ \A i \in 1..Len(doneSeq) : doneSeq[i] # p

\* C28: every navigation to the target site happens inside a job the
\* scheduler admitted.
C28_NavigationGated ==
  \A p \in Procs : NavigatesTarget(p) => Admitted(p)

\* The awaits of loadSession itself.
LoadLabels ==
  {"load_acquire", "load_wait", "load_read", "load_read_bak", "load_inject",
   "load_validate", "load_refresh", "load_saved"}

\* C27: authentication follows the state machine: loadSession is what a job
\* calls first with its page; the login form is reached only from the
\* return of that call; the saved-session path (ensureFreshSession and
\* `return page`) is taken only when the call returned true; and the
\* credentials are submitted only at the login form.
C27_AuthStateMachine ==
  [][\A p \in Jobs :
       /\ (pc[p] = "auth_page" /\ pc'[p] # pc[p]) =>
             pc'[p] \in {"load_acquire", "rejected"}
       /\ (pc'[p] = "auth_loaded" /\ pc[p] # "auth_loaded") =>
             pc[p] \in LoadLabels
       /\ (pc'[p] = "auth_login" /\ pc[p] # "auth_login") =>
             pc[p] = "auth_loaded"
       /\ (pc[p] = "auth_loaded" /\ pc'[p] = "ef_read") =>
             (retval[p] /\ ~exc[p])
       /\ (authUrl'[p] # authUrl[p] /\ authUrl'[p] # "none") =>
             pc[p] = "auth_login"]_vars

\* loadSession returned false and the job is at the login form
C27_Witness ==
  \E p \in Jobs : pc[p] = "auth_login" /\ ~retval[p] /\ ~exc[p]

\* C29: backup generation: when a save replaces a session file that was
\* there (its rename succeeds), the backup holds what the session file held
\* just before.
C29_BackupGeneration ==
  [][\A p \in Procs :
       (/\ pc[p] = "aw_rename"
        /\ pc'[p] # "aw_rename"
        /\ Exists(primary)
        /\ primary' = tmp[p]) => bak' = primary]_vars

\* The (name, domain, path) of a cookie, a missing path counting as "/".
Triple(c) == <<c.name, c.domain, IF c.path = "" THEN "/" ELSE c.path>>

\* The cookie is one saveSession keeps: named, valued, of an allowed domain
\* and not expired.
PassesFilters(c) ==
  /\ c.name # ""
  /\ c.value # ""
  /\ c \in filterAllowed({c})
  /\ ~PastExpiry(c, clock)

\* C30: in the record no two cookies share their triple; the cookie kept
\* for a triple is the last one of the snapshots with that triple that
\* passed the filters; and every triple that passed is in the record.
C30_Dedup ==
  \A p \in Procs :
     pc[p] = "aw_write" =>
        /\ \A i, j \in 1..Len(kept) :
              Triple(kept[i]) = Triple(kept[j]) => i = j
        /\ \A i \in 1..Len(kept) :
              \E n \in 1..Len(snaps) :
                 /\ snaps[n] = kept[i]
                 /\ PassesFilters(snaps[n])
                 /\ \A m \in (n + 1)..Len(snaps) :
                       PassesFilters(snaps[m]) =>
                          Triple(snaps[m]) # Triple(kept[i])
        /\ \A n \in 1..Len(snaps) :
              PassesFilters(snaps[n]) =>
                 \E i \in 1..Len(kept) : Triple(kept[i]) = Triple(snaps[n])

\* three snapshots report li_at, the last one with a new value, and the
\* record holds that one alone
C30_Witness ==
  \E p \in Procs :
     /\ pc[p] = "aw_write"
     /\ snaps = <<liAt, liAtBare, liAtNew>>
     /\ kept = <<liAtNew>>

\* C31: a job that is authenticated goes to the details page first; the
\* main profile is read for the identity fields only from the details page
\* or from the fallback that follows it, and a result is returned only from
\* there.
C31_NavigationOrder ==
  [][\A p \in Jobs :
       /\ (pc[p] = "auth_fresh" /\ pc'[p] # "auth_fresh")
             => pc'[p] = "scrape_details"
       /\ (pc'[p] = "scrape_main" /\ pc[p] # "scrape_main")
             => pc[p] \in {"scrape_details", "scrape_fallback"}
       /\ (pc'[p] = "job_close" /\ retval'[p] /\ pc[p] # "job_close")
             => pc[p] = "scrape_main"]_vars

\* a job has read the identity fields and is about to return its result
C31_Witness ==
  \E p \in Jobs : pc[p] = "job_close" /\ retval[p]

\* The restart request of p answers restarted: true in this step.
RestartSucceeds(p) ==
  /\ pc[p] = "dbg_restarted"
  /\ pc'[p] = "idle"
  /\ ~exc[p]
  /\ handle[p] \in alive

\* C32: when the restart reports success the cached handle is a running
\* browser and not the one that was cached when the request began.
C32_RestartReplaces ==
  [][\A p \in Endpoints :
       RestartSucceeds(p) =>
          /\ browser' \in alive'
          /\ browser' # cachedBefore[p]]_vars

\* The page newPage() returned to p is open: nobody closed it and its
\* browser runs.
OpenPage(p) == pageSetup[p] # {} /\ handle[p] \in alive

\* C33: a job that has settled has no page open.
C33_NoPageLeak ==
  \A p \in Jobs : pc[p] \in {"resolved", "rejected"} => ~OpenPage(p)

\* The 'disconnected' event of browser b is delivered in this step.
Disconnects(b) == b \in alive /\ b \notin alive' /\ pc' = pc

\* C34: the disconnection of a browser that is not the cached one leaves
\* the cached handle and its listeners as they are.
C34_ForeignDisconnect ==
  [][\A b \in 1..MaxLaunches :
       (Disconnects(b) /\ browser # 0 /\ b # browser) =>
          /\ browser' = browser
          /\ (browser \in listening => browser \in listening')]_vars

\* C35: the step in which a job rejects leaves the limiter's slot free; a
\* job leaves the queue only when the minimum interval has passed; and a
\* job at the head of the queue behind a rejected one is started.
C35_FailureFreesSlot ==
  /\ [][\A p \in Jobs :
          (pc'[p] = "rejected" /\ pc[p] # "rejected") => SlotFree']_vars
  /\ [][\A q \in Jobs :
          (pc[q] = "queued" /\ pc'[q] # "queued") =>
             sinceLaunch >= RequestDelay]_vars
  /\ \A q \in Jobs :
        (/\ \E p \in Jobs : pc[p] = "rejected"
         /\ queue # <<>> /\ Head(queue) = q /\ SlotFree)
           ~> (pc[q] # "queued")

\* job 1 was rejected and job 2, queued behind it, has been started
C35_Witness ==
  /\ pc[1] = "rejected"
  /\ doneSeq = <<1>>
  /\ startSeq = <<1, 2>>

\* The saveSession of p returns to its caller in this step.
SaveReturns(p) ==
  /\ pc[p] \in {"aw_write", "aw_write2", "aw_rename"}
  /\ pc'[p] \notin SaveLabels

\* The save of p that ends in this step failed: no snapshot was fulfilled,
\* or writeFile threw, or rename left the session file as it was.
SaveFailed(p) ==
  \/ snapsRejected[p]
  \/ pc[p] \in {"aw_write", "aw_write2"}
  \/ pc[p] = "aw_rename" /\ primary' # tmp[p]

\* C36: saveSession returns without an exception and with the lock free,
\* and a save that failed leaves the session file as it was.
C36_FailedSaveChangesNothing ==
  [][\A p \in Callers :
       SaveReturns(p) =>
          /\ ~exc'[p]
          /\ ~lockPromise'
          /\ (SaveFailed(p) => primary' = primary)]_vars

\* C37: a body of 1 to 10 URLs is not refused; the entries pushed so far are
\* those of the URLs handled so far, in their order, with the format error
\* exactly for the URLs that are no profile URLs; and the response has one
\* entry for each URL.
C37_BulkIsolation ==
  \A p \in Procs :
     /\ (pc[p] = "bulk_refused") => ~BulkAnalyzeSchema(linkedinUrls)
     /\ (pc[p] \in {"bulk_next", "bulk_analyze", "bulk_done"}) =>
           /\ Len(results) <= Len(linkedinUrls)
           /\ \A i \in 1..Len(results) :
                 /\ results[i].url = linkedinUrls[i]
                 /\ (results[i].error = InvalidFormat)
                       <=> ~validateLinkedInUrl(linkedinUrls[i])
     /\ (pc[p] = "bulk_done") => Len(results) = Len(linkedinUrls)

\* ten URLs were answered: the first analysis failed, the second URL was no
\* profile URL, the third analysis succeeded
C37_Witness ==
  \E p \in Procs :
     /\ pc[p] = "bulk_done"
     /\ linkedinUrls = tenUrls
     /\ results[1].error = AnalysisFailed
     /\ results[2].error = InvalidFormat
     /\ results[3].error = "none"

\* p runs release() in its finally block and the lock is freed by it
Frees(p) ==
  /\ lockPromise
  /\ ~lockPromise'
  /\ Len(stack'[p]) < Len(stack[p])

\* C38: release() frees the lock only for the operation that acquired it:
\* an operation that was woken in acquireLock never frees the lock another
\* operation took in the meantime.
C38_OwnerReleases ==
  [][\A p \in Callers : Frees(p) => owner = p]_vars

\* p leaves enforceRateLimit: lastRequestTime = Date.now()
Passes(p) ==
  /\ pc[p] \in {"rate_check", "rate_sleep"}
  /\ pc'[p] = "auth_newpage"

\* C39: whenever a direct caller leaves enforceRateLimit, at least the
\* configured delay has passed since the previous caller left it.
C39_DirectCallsPaced ==
  [][\A p \in Procs : Passes(p) => sinceRequest >= RequestDelay]_vars

====
